---- MODULE Spec2Model ----
(***************************************************************************)
(* The page-and-modal scraping traversal of scrap_obamix:                  *)
(*   scraper/list_scraper.py   scrape_all_products and its helpers         *)
(*   scraper/modal_scraper.py  extract_modal_data and _close_modal         *)
(* The browser page is the environment: every wait of the code either      *)
(* succeeds or times out, every DOM read either succeeds or raises.        *)
(***************************************************************************)
EXTENDS Integers, Sequences, FiniteSets, TLC

\* ------------------------------------------------------------------ bounds
\* Total number of table rows over all pages of the listing.
MaxTotalRows == 3
\* Largest page_limit argument tried (0 stands for None: no limit).
MaxLimit == 2

\* ------------------------------------------------------- dictionaries
\* Python's None.
None == "null"
\* The value of a field that was read from the DOM (its text is not modelled).
Text == "v"
\* The two SKUs a listing row may show besides no SKU at all.
Skus == {"K", "U"}

EmptyDict == [f \in {} |-> Text]

\* {**a, **b}
Merge(a, b) ==
    [f \in (DOMAIN a) \cup (DOMAIN b) |-> IF f \in DOMAIN b THEN b[f] ELSE a[f]]

\* d[k] = v
SetItem(d, k, v) ==
    [f \in (DOMAIN d) \cup {k} |-> IF f = k THEN v ELSE d[f]]

\* Keys of the summary dict built by _extract_listing_summary.
SummaryFields ==
    {"product_id", "listing_sku", "listing_thumbnail", "listing_thumbnail_full",
     "listing_name", "listing_color", "listing_model", "listing_brand",
     "listing_price_text", "listing_stock_badge", "listing_stock_tooltip",
     "listing_available_qty", "listing_badges"}

\* Keys extract_modal_data has set when it reaches `if light`.
LightFields ==
    {"product_id", "sku", "name", "price_text", "price_brl", "stock_label",
     "stock_tooltip", "available_qty", "price_min_brl"}

\* Keys extract_modal_data sets after `if light`.
FullOnlyFields ==
    {"brand", "model", "color", "voltage", "ean", "ncm", "anatel", "inmetro",
     "weight_kg", "dimensions_cm", "categories", "flags", "description_html",
     "notices_html", "top_keywords", "title_suggestions", "video_url",
     "main_image", "main_image_full", "images"}

\* The summary dict of a row with trigger data-id pid and first-cell text sku.
ListingSummary(pid, sku) ==
    [f \in SummaryFields |->
        IF f = "product_id" THEN pid
        ELSE IF f = "listing_sku" THEN sku
        ELSE Text]

\* data after the reads up to `if light`.
LightData(pid) ==
    [f \in LightFields |-> IF f = "product_id" THEN pid ELSE Text]

\* data after the reads that follow `if light`.
FullData(d) ==
    [f \in (DOMAIN d) \cup FullOnlyFields |-> IF f \in DOMAIN d THEN d[f] ELSE Text]

\* known = bool(known_skus) and listing_sku and listing_sku in known_skus
IsKnown(skus, sku) == skus # {} /\ sku # None /\ sku \in skus

\* --------------------------------------------------------------- the table
RECURSIVE SumSeq(_)
SumSeq(s) == IF s = <<>> THEN 0 ELSE s[1] + SumSeq(Tail(s))

\* The listings: one entry per page, the number of rows of that page (>= 1).
Tables ==
    { t \in UNION { [1..n -> 1..MaxTotalRows] : n \in 1..MaxTotalRows } :
        SumSeq(t) <= MaxTotalRows }

\* data-id of the trigger of row i (1-based) of page p: rows are numbered
\* through the whole listing, so ids are unique.
RowId(t, p, i) == SumSeq(SubSeq(t, 1, p - 1)) + i

VARIABLES
    table,          \* environment: rows per page of the listing
    dom_page,       \* environment: the page the table shows
    overlay,        \* environment: the #viewProduct overlay is visible
    page_limit,     \* argument (0 = None)
    known_skus,     \* argument
    on_page,        \* argument: a per-page callback was passed
    on_page_calls,  \* the calls of on_page so far: page number and records
    pc,             \* position in scrape_all_products / extract_modal_data
    page,           \* local: page counter
    rows,           \* local: len(rows) of the current page
    index,          \* local: loop index (1-based)
    summary,        \* local: the row's summary dict
    known,          \* local
    data,           \* extract_modal_data's data dict
    exc,            \* the exception in flight ("" when none)
    page_products,  \* local
    products,       \* local
    returned,       \* what the caller received
    extract_exit,   \* how the last extract_modal_data call ended
    closed_in_call, \* _close_modal ran during that call
    close_ignored,  \* some close request was not delivered or not honoured
    next_clicks,    \* number of activations of the next-page control
    side            \* the call of a helper function checked on its own

walker_vars ==
    <<table, dom_page, overlay, page_limit, known_skus, on_page,
      on_page_calls, pc, page, rows, index,
      summary, known, data, exc, page_products, products, returned,
      extract_exit, closed_in_call, close_ignored, next_clicks>>

vars == <<walker_vars, side>>

\* What no step of the walker changes.
env_const == <<table, page_limit, known_skus, on_page, side>>

\* side while the walker runs.
Idle == [fn |-> "none"]

NoValue == [ok |-> FALSE, value |-> <<>>]

\* The locals and the page at the entry of scrape_all_products.
WalkerStart ==
    /\ on_page_calls = <<>>
    /\ dom_page = 1
    /\ overlay = FALSE
    /\ pc = "await_table"
    /\ page = 1
    /\ rows = 0
    /\ index = 0
    /\ summary = EmptyDict
    /\ known = FALSE
    /\ data = EmptyDict
    /\ exc = ""
    /\ page_products = <<>>
    /\ products = <<>>
    /\ returned = NoValue
    /\ extract_exit = "none"
    /\ closed_in_call = FALSE
    /\ close_ignored = FALSE
    /\ next_clicks = 0

Init ==
    /\ table \in Tables
    /\ page_limit \in 0..MaxLimit
    /\ known_skus \in {{}, {"K"}}
    /\ on_page \in BOOLEAN
    /\ WalkerStart
    /\ side = Idle

\* The walker at rest, for the specifications of single helper functions.
WalkerIdle ==
    /\ table = <<1>>
    /\ page_limit = 0
    /\ known_skus = {}
    /\ on_page = FALSE
    /\ WalkerStart

\* ------------------------------------------------- modal_scraper.py
\* _close_modal: the close-control click, else Escape to the body, else nothing
\* (how); then the bounded wait for invisibility, whose timeout is ignored
\* (honoured = the page hid the overlay on the request).
CloseModal(how, honoured) ==
    /\ overlay' = IF how # "none" /\ honoured THEN FALSE ELSE overlay
    /\ closed_in_call' = TRUE
    /\ close_ignored' = (close_ignored \/ (overlay /\ ~(how # "none" /\ honoured)))

CloseHow == {"click", "escape", "none"}

\* The light-mode return left out: every row is read in full.
LightReturn_Never(light) == FALSE

\* `if light: return data`
LightReturn(light) == light

\* extract_modal_data, lines 23-29: the two readiness waits; on a timeout the
\* overlay is closed and RuntimeError raised.
ExtractWaitReady ==
    /\ pc = "modal_wait"
    /\ \/ /\ overlay
          /\ pc' = "read_light"
          /\ data' = EmptyDict
          /\ UNCHANGED <<overlay, closed_in_call, close_ignored, exc, extract_exit>>
       \/ /\ \E how \in CloseHow, honoured \in BOOLEAN : CloseModal(how, honoured)
          /\ exc' = "Modal nao carregou completamente antes do timeout."
          /\ extract_exit' = "raise_timeout"
          /\ pc' = "row_result"
          /\ data' = EmptyDict
    /\ UNCHANGED <<env_const, on_page_calls, dom_page, page, rows, index, summary, known,
                   page_products, products, returned, next_clicks>>

\* extract_modal_data, lines 31-63: the reads every mode makes, then the
\* light-mode return. A DOM read may raise (the overlay re-rendered or vanished).
ExtractReadLight ==
    /\ pc = "read_light"
    /\ \/ /\ data' = LightData(summary["product_id"])
          /\ IF LightReturn(known)
             THEN /\ pc' = "row_result"
                  /\ extract_exit' = "return_light"
             ELSE /\ pc' = "read_full"
                  /\ UNCHANGED extract_exit
          /\ UNCHANGED exc
       \/ /\ exc' = "StaleElementReferenceException"
          /\ extract_exit' = "raise_read"
          /\ pc' = "row_result"
          /\ data' = EmptyDict
    /\ UNCHANGED <<env_const, on_page_calls, dom_page, overlay, page, rows, index, summary, known,
                   page_products, products, returned, closed_in_call,
                   close_ignored, next_clicks>>

\* extract_modal_data, lines 65-110: the remaining reads, then
\* `try: return data  finally: _close_modal(driver)`.
ExtractReadFull ==
    /\ pc = "read_full"
    /\ \/ /\ data' = FullData(data)
          /\ \E how \in CloseHow, honoured \in BOOLEAN : CloseModal(how, honoured)
          /\ extract_exit' = "return_full"
          /\ UNCHANGED exc
       \/ /\ exc' = "StaleElementReferenceException"
          /\ extract_exit' = "raise_read"
          /\ UNCHANGED <<data, overlay, closed_in_call, close_ignored>>
    /\ pc' = "row_result"
    /\ UNCHANGED <<env_const, on_page_calls, dom_page, page, rows, index, summary, known,
                   page_products, products, returned, next_clicks>>

\* -------------------------------------------------- list_scraper.py
\* The wait wrapped in `except TimeoutException: break`: a table that never
\* becomes ready ends the run as if the listing were over.
WaitForTableReady_Swallow ==
    /\ pc = "await_table"
    /\ \/ /\ pc' = "enumerate"
          /\ UNCHANGED returned
       \/ /\ pc' = "done"
          /\ returned' = [ok |-> TRUE, value |-> products]
    /\ UNCHANGED <<env_const, on_page_calls, dom_page, overlay, page, rows, index,
                   summary, known, data, exc, page_products, products,
                   extract_exit, closed_in_call, close_ignored, next_clicks>>

\* _wait_for_table_ready at the top of the loop: rows present and spinners
\* hidden within the timeout, or TimeoutException, which nothing catches.
WaitForTableReady ==
    /\ pc = "await_table"
    /\ \/ /\ pc' = "enumerate"
          /\ UNCHANGED exc
       \/ /\ pc' = "raised"
          /\ exc' = "TimeoutException"
    /\ UNCHANGED <<env_const, on_page_calls, dom_page, overlay, page, rows, index, summary, known,
                   data, page_products, products, returned, extract_exit,
                   closed_in_call, close_ignored, next_clicks>>

\* rows = find_elements(...); if not rows: break; page_products = []
\* (the listing does not change during a run: the wait before found a row,
\* so the break is taken only by a table that lost its rows in between).
EnumerateRows ==
    /\ pc = "enumerate"
    /\ rows' = table[dom_page]
    /\ IF rows' = 0
       THEN /\ pc' = "done"
            /\ returned' = [ok |-> TRUE, value |-> products]
            /\ UNCHANGED <<index, page_products>>
       ELSE /\ pc' = "summary"
            /\ index' = 1
            /\ page_products' = <<>>
            /\ UNCHANGED returned
    /\ UNCHANGED <<env_const, on_page_calls, dom_page, overlay, page, summary, known, data, exc,
                   products, extract_exit, closed_in_call, close_ignored,
                   next_clicks>>

\* _extract_listing_summary(driver, index) and the computation of known. It is
\* called outside the try block: what it raises leaves scrape_all_products.
\* The rows are located anew and indexed; a stale reference there is answered
\* by locating once more, and the reads of the row that follow are not inside
\* that try: a row re-rendered while it is read raises
\* StaleElementReferenceException.
ExtractListingSummary ==
    /\ pc = "summary"
    /\ \/ \E sku \in Skus \cup {None} :
            /\ summary' = ListingSummary(RowId(table, dom_page, index), sku)
            /\ known' = IsKnown(known_skus, sku)
            /\ pc' = "open_modal"
            /\ UNCHANGED exc
       \/ \E why \in {"Botao do modal nao possui data-id.",
                      "StaleElementReferenceException"} :
            /\ exc' = why
            /\ pc' = "raised"
            /\ UNCHANGED <<summary, known>>
    /\ UNCHANGED <<env_const, on_page_calls, dom_page, overlay, page, rows, index, data,
                   page_products, products, returned, extract_exit,
                   closed_in_call, close_ignored, next_clicks>>

\* _open_modal: scroll, wait for the trigger, click it (script click when the
\* click is intercepted), wait for #viewProduct to be visible.
OpenModal ==
    /\ pc = "open_modal"
    /\ \/ /\ overlay' = TRUE
          /\ pc' = "modal_wait"
          /\ UNCHANGED <<exc, extract_exit>>
       \/ /\ exc' = "TimeoutException"
          /\ pc' = "row_result"
          /\ extract_exit' = "none"
          /\ UNCHANGED overlay
    /\ closed_in_call' = FALSE
    /\ data' = EmptyDict
    /\ UNCHANGED <<env_const, on_page_calls, dom_page, page, rows, index, summary, known,
                   page_products, products, returned, close_ignored, next_clicks>>

\* str(exc): a non-empty text; which text is not modelled.
Str(e) == Text

\* result = {**summary, **details}; if known: result["scrape_error"] = None
RowResult(s, details, k) ==
    IF k THEN SetItem(Merge(s, details), "scrape_error", None) ELSE Merge(s, details)

\* The except block keeping what the interrupted extraction had read.
ErrorResult_KeepPartial(s, partial, msg) ==
    SetItem(Merge(s, partial), "scrape_error", Str(msg))

\* except Exception as exc: summary["scrape_error"] = str(exc); result = summary
ErrorResult(s, partial, msg) == SetItem(s, "scrape_error", Str(msg))

\* The append placed inside the try block: a failed row leaves no record.
AppendResult_DropFailed(pp, result, k) ==
    IF "scrape_error" \in DOMAIN result /\ result["scrape_error"] # None
    THEN pp
    ELSE Append(pp, SetItem(result, "_existing_sku", k))

\* The _existing_sku assignment placed inside the try block: a failed row's
\* record lacks the key.
AppendResult_FlagInTry(pp, result, k) ==
    IF "scrape_error" \in DOMAIN result /\ result["scrape_error"] # None
    THEN Append(pp, result)
    ELSE Append(pp, SetItem(result, "_existing_sku", k))

\* result["_existing_sku"] = bool(known); page_products.append(result)
AppendResult(pp, result, k) == Append(pp, SetItem(result, "_existing_sku", k))

\* The loop index left as it is: the same row is read again.
NextIndex_Same(i) == i

\* for index in range(len(rows)): the next index
NextIndex(i) == i + 1

\* Lines 54-62: the end of the try block or the except block, the append, the
\* row delay, and the loop's next index.
FinishRow ==
    /\ pc = "row_result"
    /\ page_products' =
          AppendResult(page_products,
                       IF exc = "" THEN RowResult(summary, data, known)
                                   ELSE ErrorResult(summary, data, exc),
                       known)
    /\ exc' = ""
    /\ extract_exit' = "none"
    /\ data' = EmptyDict
    /\ IF index < rows
       THEN /\ index' = NextIndex(index)
            /\ pc' = "summary"
       ELSE /\ pc' = "page_end"
            /\ UNCHANGED index
    /\ UNCHANGED <<env_const, on_page_calls, dom_page, overlay, page, rows, summary, known,
                   products, returned, closed_in_call, close_ignored, next_clicks>>

\* products = page_products: each page overwrites the pages before it.
Extend_Overwrite(ps, pp) == pp

\* products.extend(page_products)
Extend(ps, pp) == ps \o pp

\* The limit compared with > : one page too many is walked.
LimitReached_OffByOne(limit, p) == limit # 0 /\ p > limit

\* if page_limit and page >= page_limit
LimitReached(limit, p) == limit # 0 /\ p >= limit

\* The callback given the page counter after its increment.
OnPage_NextNumber(calls, cb, pp, p) ==
    IF cb THEN Append(calls, [page |-> p + 1, records |-> pp]) ELSE calls

\* if on_page: on_page(page_products, page)
OnPage(calls, cb, pp, p) ==
    IF cb THEN Append(calls, [page |-> p, records |-> pp]) ELSE calls

\* Lines 64-71: the callback, the page's records join products, the page limit
\* ends the run.
FinishPage ==
    /\ pc = "page_end"
    /\ on_page_calls' = OnPage(on_page_calls, on_page, page_products, page)
    /\ products' = Extend(products, page_products)
    /\ IF LimitReached(page_limit, page)
       THEN /\ pc' = "done"
            /\ returned' = [ok |-> TRUE, value |-> products']
       ELSE /\ pc' = "next_page"
            /\ UNCHANGED returned
    /\ UNCHANGED <<env_const, dom_page, overlay, page, rows, index, summary, known,
                   data, exc, page_products, extract_exit, closed_in_call,
                   close_ignored, next_clicks>>

\* The class test left out: the control is clicked on the last page too.
NextDisabled_Never(t, p) == FALSE

\* "disabled" in classes: the control of the listing's last page.
NextDisabled(t, p) == p >= Len(t)

\* Lines 73-76 and _go_to_next_page: the control may be missing
\* (NoSuchElementException); disabled ends the run; otherwise it is clicked
\* and the table awaited.
GoToNextPage ==
    /\ pc = "next_page"
    /\ \/ /\ exc' = "NoSuchElementException"
          /\ pc' = "raised"
          /\ UNCHANGED <<dom_page, next_clicks, page, returned>>
       \/ /\ NextDisabled(table, dom_page)
          /\ pc' = "done"
          /\ returned' = [ok |-> TRUE, value |-> products]
          /\ UNCHANGED <<dom_page, next_clicks, page, exc>>
       \/ /\ ~NextDisabled(table, dom_page)
          /\ dom_page' = dom_page + 1
          /\ next_clicks' = next_clicks + 1
          /\ \/ /\ page' = page + 1
                /\ pc' = "await_table"
                /\ UNCHANGED exc
             \/ /\ exc' = "TimeoutException"
                /\ pc' = "raised"
                /\ UNCHANGED page
          /\ UNCHANGED returned
    /\ UNCHANGED <<env_const, on_page_calls, overlay, rows, index, summary, known, data,
                   page_products, products, extract_exit, closed_in_call,
                   close_ignored>>

Next ==
    \/ WaitForTableReady
    \/ EnumerateRows
    \/ ExtractListingSummary
    \/ OpenModal
    \/ ExtractWaitReady
    \/ ExtractReadLight
    \/ ExtractReadFull
    \/ FinishRow
    \/ FinishPage
    \/ GoToNextPage

Spec == Init /\ [][Next]_vars

\* Every wait is a poll with a timeout and every DOM call returns or raises:
\* a step that can be taken is taken.
LiveSpec == Spec /\ WF_vars(Next)


\* ------------------------------- two runs of scrape_all_products
\* A first call and, after it returned, a second call with the same arguments
\* on the same table, the listing loaded anew: side holds the number of the
\* run and the list the first run returned.
TwoRunsInit ==
    /\ table \in Tables
    /\ page_limit \in 0..MaxLimit
    /\ known_skus \in {{}, {"K"}}
    /\ on_page = FALSE
    /\ WalkerStart
    /\ side = [fn |-> "scrape_all_products", run |-> 1, first |-> <<>>]

\* The table is unchanged: the first cell of a row reads in the second run
\* what it read in the first.
SameTable ==
    (side.fn = "scrape_all_products" /\ side.run = 2
        /\ pc = "summary" /\ pc' = "open_modal") =>
       \E i \in 1..Len(side.first) :
          /\ side.first[i]["product_id"] = summary'["product_id"]
          /\ side.first[i]["listing_sku"] = summary'["listing_sku"]

\* driver.get(PRODUCTS_URL) and the second call of scrape_all_products.
SecondRun ==
    /\ side.fn = "scrape_all_products"
    /\ side.run = 1
    /\ pc = "done"
    /\ side' = [side EXCEPT !.run = 2, !.first = returned.value]
    /\ on_page_calls' = <<>>
    /\ dom_page' = 1
    /\ overlay' = FALSE
    /\ pc' = "await_table"
    /\ page' = 1
    /\ rows' = 0
    /\ index' = 0
    /\ summary' = EmptyDict
    /\ known' = FALSE
    /\ data' = EmptyDict
    /\ exc' = ""
    /\ page_products' = <<>>
    /\ products' = <<>>
    /\ returned' = NoValue
    /\ extract_exit' = "none"
    /\ closed_in_call' = FALSE
    /\ close_ignored' = FALSE
    /\ next_clicks' = 0
    /\ UNCHANGED <<table, page_limit, known_skus, on_page>>

WalkerStep == Next /\ SameTable

TwoRunsNext ==
    \/ WalkerStep
    \/ SecondRun

TwoRunsSpec == TwoRunsInit /\ [][TwoRunsNext]_vars

\* --------------------------------------------- _collect_gallery
\* Largest number of thumbnails under #modal-media.
MaxThumbs == 3

\* Python's truth of an attribute value: None and "" are false.
Falsy(x) == x \in {None, ""}

\* The values of a src attribute, and of an href attribute.
SrcValues == {None, "", "A", "B"}
HrefValues == {None, "H"}

\* The duplicate test looking at the main image only.
IsDuplicate_MainOnly(gallery, url) == gallery # <<>> /\ gallery[1].url = url

\* any(entry["url"] == url for entry in gallery)
IsDuplicate(gallery, url) == \E i \in 1..Len(gallery) : gallery[i].url = url

\* The loop over enumerate(thumbnails, start=1), from index idx on. The href
\* of a thumbnail is that of its enclosing anchor, or the url when it has none.
RECURSIVE GalleryLoop(_, _, _)
GalleryLoop(gallery, thumbnails, idx) ==
    IF idx > Len(thumbnails) THEN gallery
    ELSE LET url == thumbnails[idx].src
             href == thumbnails[idx].href
         IN  IF Falsy(url) THEN GalleryLoop(gallery, thumbnails, idx + 1)
             ELSE IF IsDuplicate(gallery, url)
                  THEN GalleryLoop(gallery, thumbnails, idx + 1)
             ELSE GalleryLoop(
                     Append(gallery,
                            [url |-> url,
                             href |-> IF Falsy(href) THEN url ELSE href,
                             is_main |-> FALSE,
                             position |-> idx]),
                     thumbnails, idx + 1)

\* _collect_gallery(modal, main_src, main_href)
CollectGallery(main_src, main_href, thumbnails) ==
    GalleryLoop(
        IF Falsy(main_src) THEN <<>>
        ELSE <<[url |-> main_src,
                href |-> IF Falsy(main_href) THEN main_src ELSE main_href,
                is_main |-> TRUE,
                position |-> 0]>>,
        thumbnails, 1)

Thumbnails ==
    UNION { [1..n -> [src : SrcValues, href : HrefValues]] : n \in 0..MaxThumbs }

GalleryInit ==
    /\ WalkerIdle
    /\ \E m \in SrcValues, h \in HrefValues, t \in Thumbnails :
          side = [fn |-> "_collect_gallery", main_src |-> m, main_href |-> h,
                  thumbnails |-> t, done |-> FALSE, gallery |-> <<>>]

CollectGalleryCall ==
    /\ side.fn = "_collect_gallery"
    /\ ~side.done
    /\ side' = [side EXCEPT
                  !.done = TRUE,
                  !.gallery = CollectGallery(side.main_src, side.main_href,
                                             side.thumbnails)]
    /\ UNCHANGED walker_vars

GalleryNext == CollectGalleryCall

GallerySpec == GalleryInit /\ [][GalleryNext]_vars

\* ---------------------------------------------- _parse_quantity
\* Texts are sequences of one-character strings; "~" stands for the
\* non-breaking space \xa0. An optional text (str or None):
SomeText(chars) == [some |-> TRUE, chars |-> chars]
NoText == [some |-> FALSE, chars |-> <<>>]

\* An optional integer result (int or None).
SomeInt(n) == [some |-> TRUE, value |-> n]
NoInt == [some |-> FALSE, value |-> 0]

QTY_MAX == 1000000

DigitChars == <<"0", "1", "2", "3", "4", "5", "6", "7", "8", "9">>
IsDigit(c) == \E d \in 1..10 : DigitChars[d] = c
DigitVal(c) == (CHOOSE d \in 1..10 : DigitChars[d] = c) - 1

\* \s
IsSpace(c) == c \in {" ", "\t", "\n", "~"}

\* str.replace for a one-character pattern
ReplaceChar(s, a, b) == [i \in 1..Len(s) |-> IF s[i] = a THEN b ELSE s[i]]

\* str.strip()
RECURSIVE LStrip(_)
LStrip(s) == IF s # <<>> /\ IsSpace(s[1]) THEN LStrip(Tail(s)) ELSE s
RECURSIVE RStrip(_)
RStrip(s) ==
    IF s # <<>> /\ IsSpace(s[Len(s)]) THEN RStrip(SubSeq(s, 1, Len(s) - 1)) ELSE s
Strip(s) == RStrip(LStrip(s))

\* \d at s[i], k times
DigitsAt(s, i, k) == i + k - 1 <= Len(s) /\ \A j \in i..(i + k - 1) : IsDigit(s[j])

\* (?:[.\s]\d{3})+ from s[i], greedy: the number of groups matched
RECURSIVE GroupsAt(_, _)
GroupsAt(s, i) ==
    IF i + 3 <= Len(s) /\ (s[i] = "." \/ IsSpace(s[i])) /\ DigitsAt(s, i + 1, 3)
    THEN 1 + GroupsAt(s, i + 4)
    ELSE 0

\* \d+ from s[i], greedy: the number of digits matched
RECURSIVE RunAt(_, _)
RunAt(s, i) == IF i <= Len(s) /\ IsDigit(s[i]) THEN 1 + RunAt(s, i + 1) ELSE 0

\* _QUANTITY_PATTERN matched at s[i]: the length of the match, 0 for none. The
\* first alternative tries \d{1,3} with 3, 2, 1 digits, in this order, each
\* followed by at least one group; the second alternative is \d+.
MatchAt(s, i) ==
    IF DigitsAt(s, i, 3) /\ GroupsAt(s, i + 3) >= 1 THEN 3 + 4 * GroupsAt(s, i + 3)
    ELSE IF DigitsAt(s, i, 2) /\ GroupsAt(s, i + 2) >= 1 THEN 2 + 4 * GroupsAt(s, i + 2)
    ELSE IF DigitsAt(s, i, 1) /\ GroupsAt(s, i + 1) >= 1 THEN 1 + 4 * GroupsAt(s, i + 1)
    ELSE RunAt(s, i)

\* _QUANTITY_PATTERN.search(s).group(), from position i on; <<>> for no match
RECURSIVE SearchFrom(_, _)
SearchFrom(s, i) ==
    IF i > Len(s) THEN <<>>
    ELSE IF MatchAt(s, i) > 0 THEN SubSeq(s, i, i + MatchAt(s, i) - 1)
    ELSE SearchFrom(s, i + 1)

\* re.sub(r"\D", "", text)
DigitsOnly(s) == SelectSeq(s, IsDigit)

\* int(digits)
RECURSIVE ToInt(_)
ToInt(ds) ==
    IF ds = <<>> THEN 0
    ELSE 10 * ToInt(SubSeq(ds, 1, Len(ds) - 1)) + DigitVal(ds[Len(ds)])

\* The clamp left out.
Clamp_None(value, limit) == value

\* min(value, limit)
Clamp(value, limit) == IF value < limit THEN value ELSE limit

\* list_scraper._parse_quantity(raw), limit = QTY_MAX
ParseQuantityList(raw) ==
    IF ~raw.some \/ raw.chars = <<>> THEN NoInt
    ELSE LET cleaned == Strip(ReplaceChar(raw.chars, "~", " "))
             match == SearchFrom(cleaned, 1)
         IN  IF cleaned = <<>> THEN NoInt
             ELSE IF match = <<>> THEN NoInt
             ELSE IF DigitsOnly(match) = <<>> THEN NoInt
             ELSE SomeInt(Clamp(ToInt(DigitsOnly(match)), QTY_MAX))

\* modal_scraper._parse_quantity(raw), limit = QTY_MAX
ParseQuantityModal(raw) ==
    IF ~raw.some \/ raw.chars = <<>> THEN NoInt
    ELSE LET cleaned == Strip(ReplaceChar(raw.chars, "~", " "))
             match == SearchFrom(cleaned, 1)
         IN  IF cleaned = <<>> THEN NoInt
             ELSE IF match = <<>> THEN NoInt
             ELSE IF DigitsOnly(match) = <<>> THEN NoInt
             ELSE SomeInt(Clamp(ToInt(DigitsOnly(match)), QTY_MAX))

\* Longest text of any character tried, and longest text of number characters.
QtyMaxLen == 5
QtyNumLen == 9

QtyChars == {"0", "1", ".", " ", "~", "u"}
QtyNumChars == {"1", ".", " "}

SeqsUpTo(chars, n) == UNION { [1..k -> chars] : k \in 0..n }

QtyTexts ==
    {NoText} \cup { SomeText(c) : c \in SeqsUpTo(QtyChars, QtyMaxLen)
                                     \cup SeqsUpTo(QtyNumChars, QtyNumLen) }

QtyInit ==
    /\ WalkerIdle
    /\ \E raw \in QtyTexts :
          side = [fn |-> "_parse_quantity", raw |-> raw, done |-> FALSE,
                  list |-> NoInt, modal |-> NoInt]

ParseQuantityCall ==
    /\ side.fn = "_parse_quantity"
    /\ ~side.done
    /\ side' = [side EXCEPT !.done = TRUE,
                            !.list = ParseQuantityList(side.raw),
                            !.modal = ParseQuantityModal(side.raw)]
    /\ UNCHANGED walker_vars

QtyNext == ParseQuantityCall

QtySpec == QtyInit /\ [][QtyNext]_vars

\* ------------------------------------------------ _parse_decimal
\* A Decimal or None: kind "none", "finite" (sign, coefficient, exponent),
\* "inf" or "nan".
NoDecimal == [kind |-> "none", neg |-> FALSE, coef |-> 0, exp |-> 0]
Finite(neg, coef, exp) == [kind |-> "finite", neg |-> neg, coef |-> coef, exp |-> exp]
Special(kind, neg) == [kind |-> kind, neg |-> neg, coef |-> 0, exp |-> 0]

\* str.replace(a + b, ""): one pass, left to right, without rescanning
RECURSIVE RemovePair(_, _, _)
RemovePair(s, a, b) ==
    IF s = <<>> THEN <<>>
    ELSE IF Len(s) >= 2 /\ s[1] = a /\ s[2] = b
    THEN RemovePair(SubSeq(s, 3, Len(s)), a, b)
    ELSE <<s[1]>> \o RemovePair(Tail(s), a, b)

\* str.replace(c, "")
RemoveChar(s, c) == SelectSeq(s, LAMBDA x : x # c)

\* The chain of replacements of _parse_decimal.
Normalize(value) ==
    ReplaceChar(
        RemoveChar(
            RemoveChar(
                RemoveChar(
                    RemovePair(RemovePair(value, "R", "$"), "r", "$"),
                    "~"),
                "."),
            " "),
        ",", ".")

\* Case folding of the letters Decimal looks for.
UpperLetters == <<"A", "F", "I", "N", "S", "T", "Y">>
LowerLetters == <<"a", "f", "i", "n", "s", "t", "y">>
LowerChar(c) ==
    IF \E k \in 1..Len(UpperLetters) : UpperLetters[k] = c
    THEN LowerLetters[CHOOSE k \in 1..Len(UpperLetters) : UpperLetters[k] = c]
    ELSE c
Lower(s) == [i \in 1..Len(s) |-> LowerChar(s[i])]

AllDigits(s) == \A i \in 1..Len(s) : IsDigit(s[i])

\* The position of the first "." of s (Len(s) + 1 when it has none).
RECURSIVE PointAt(_, _)
PointAt(s, i) == IF i > Len(s) \/ s[i] = "." THEN i ELSE PointAt(s, i + 1)

\* Decimal(text) for a text without exponent and underscore; "none" stands for
\* InvalidOperation. The text is stripped; a sign may lead; then "inf",
\* "infinity", "nan" or "snan" with optional digits (any case), or digits with
\* at most one point and at least one digit.
DecimalOf(text) ==
    LET t == Strip(text)
        signed == t # <<>> /\ t[1] \in {"-", "+"}
        neg == t # <<>> /\ t[1] = "-"
        body == IF signed THEN Tail(t) ELSE t
        low == Lower(body)
        p == PointAt(body, 1)
        int == SubSeq(body, 1, p - 1)
        frac == SubSeq(body, p + 1, Len(body))
    IN  IF low \in {<<"i", "n", "f">>, <<"i", "n", "f", "i", "n", "i", "t", "y">>}
        THEN Special("inf", neg)
        ELSE IF Len(low) >= 3 /\ SubSeq(low, 1, 3) = <<"n", "a", "n">>
                /\ AllDigits(SubSeq(low, 4, Len(low)))
        THEN Special("nan", neg)
        ELSE IF Len(low) >= 4 /\ SubSeq(low, 1, 4) = <<"s", "n", "a", "n">>
                /\ AllDigits(SubSeq(low, 5, Len(low)))
        THEN Special("nan", neg)
        ELSE IF AllDigits(int) /\ AllDigits(frac) /\ Len(int) + Len(frac) >= 1
        THEN Finite(neg, ToInt(int \o frac), 0 - Len(frac))
        ELSE NoDecimal


\* modal_scraper._parse_decimal(value)
ParseDecimal(value) ==
    IF ~value.some \/ value.chars = <<>> THEN NoDecimal
    ELSE DecimalOf(Normalize(value.chars))

\* Longest text of any character tried, and most thousands groups of a price.
DecMaxLen == 4
DecMaxGroups == 1

DecChars == {"R", "$", " ", "~", ".", ",", "1", "5", "N", "a", "-"}

\* 'R$', blanks, an integer part with '.' between groups of three, ',' and
\* two decimals.
PriceBlanks == {<<>>, <<" ">>, <<"~">>, <<" ", " ">>}
PriceLead ==
    {<<"0">>} \cup { l \in SeqsUpTo({"0", "1", "5"}, 3) : l # <<>> /\ l[1] # "0" }
PriceGroup == { <<".">> \o g : g \in [1..3 -> {"0", "5"}] }
RECURSIVE PriceGroups(_)
PriceGroups(n) ==
    IF n = 0 THEN {<<>>}
    ELSE LET less == PriceGroups(n - 1)
         IN  less \cup { gs \o g : gs \in less, g \in PriceGroup }
PriceCents == [1..2 -> {"0", "5"}]
CurrencyTexts ==
    { <<"R", "$">> \o b \o l \o gs \o <<",">> \o c :
        b \in PriceBlanks, l \in PriceLead, gs \in PriceGroups(DecMaxGroups),
        c \in PriceCents }

\* Texts a page can show in place of a price.
PriceWords ==
    { <<"R", "$", " ", "N", "a", "N">>, <<"N", "a", "N">>,
      <<"R", "$", " ", "1", ".", "2", "3", "4", ",", "5", "6">>,
      <<"C", "o", "n", "s", "u", "l", "t", "e">>,
      <<"I", "n", "f", "i", "n", "i", "t", "y">> }

DecTexts ==
    {NoText} \cup { SomeText(c) : c \in SeqsUpTo(DecChars, DecMaxLen)
                                     \cup CurrencyTexts \cup PriceWords }

DecInit ==
    /\ WalkerIdle
    /\ \E value \in DecTexts :
          side = [fn |-> "_parse_decimal", value |-> value, done |-> FALSE,
                  out |-> NoDecimal]

ParseDecimalCall ==
    /\ side.fn = "_parse_decimal"
    /\ ~side.done
    /\ side' = [side EXCEPT !.done = TRUE, !.out = ParseDecimal(side.value)]
    /\ UNCHANGED walker_vars

DecNext == ParseDecimalCall

DecSpec == DecInit /\ [][DecNext]_vars

\* ------------------------------------------------- save_products
\* Most calls of save_products.
MaxSaves == 2

\* The product ids stored; a batch holds at most as many products.
ProductIds == {1, 2}
MaxBatch == Cardinality(ProductIds)

\* The six child tables and the key of a product each is built from.
ChildTables ==
    {"product_categories", "product_flags", "product_images", "product_keywords",
     "product_titles", "product_listing_badges"}
FrameKey(t) ==
    CASE t = "product_categories" -> "categories"
      [] t = "product_flags" -> "flags"
      [] t = "product_images" -> "images"
      [] t = "product_keywords" -> "top_keywords"
      [] t = "product_titles" -> "title_suggestions"
      [] t = "product_listing_badges" -> "listing_badges"

\* Three collected products per id: one without a name of its own and with
\* some lists empty, one with other values in every list, and the record of a
\* light-mode run, which has the listing's keys and the light keys only.
ProductA(pid) ==
    [product_id |-> pid, name |-> None, listing_name |-> "L1", ean |-> None,
     categories |-> <<"x">>,
     flags |-> <<>>,
     images |-> <<[url |-> "A", href |-> None, is_main |-> TRUE, position |-> 0]>>,
     top_keywords |-> <<"k", "k">>,
     title_suggestions |-> <<>>,
     listing_badges |-> <<[label |-> "b", tooltip |-> None]>>]
ProductB(pid) ==
    [product_id |-> pid, name |-> "N", listing_name |-> "L2", ean |-> "E",
     categories |-> <<"y", "x">>,
     flags |-> <<[label |-> "f", tooltip |-> "t"]>>,
     images |-> <<[url |-> "A", href |-> "H", is_main |-> TRUE, position |-> 0],
                  [url |-> "B", href |-> None, is_main |-> FALSE, position |-> 1]>>,
     top_keywords |-> <<>>,
     title_suggestions |-> <<"t">>,
     listing_badges |-> <<>>]
ProductLight(pid) ==
    [product_id |-> pid, name |-> "N", listing_name |-> "L2",
     listing_badges |-> <<[label |-> "b", tooltip |-> None]>>]
CollectedProducts ==
    { ProductA(pid) : pid \in ProductIds } \cup { ProductB(pid) : pid \in ProductIds }
        \cup { ProductLight(pid) : pid \in ProductIds }
Batches == SeqsUpTo(CollectedProducts, MaxBatch)

\* x or y
Or(x, y) == IF Falsy(x) THEN y ELSE x

\* p.get(key)
Get(p, key) == IF key \in DOMAIN p THEN p[key] ELSE None

\* product.get(key) or []
Entries(p, key) == IF key \in DOMAIN p THEN p[key] ELSE <<>>

\* One record of frames["products"]
ProductRecord(p) ==
    [product_id |-> p.product_id,
     name |-> Or(Get(p, "name"), Get(p, "listing_name")),
     ean |-> Get(p, "ean"),
     listing_name |-> Get(p, "listing_name")]

\* _build_simple_frame / _build_dict_frame: one row per entry, in batch order
RECURSIVE BuildFrame(_, _)
BuildFrame(prods, key) ==
    IF prods = <<>> THEN <<>>
    ELSE LET p == prods[1]
         IN  [i \in 1..Len(Entries(p, key)) |->
                 [product_id |-> p.product_id, val |-> Entries(p, key)[i]]]
             \o BuildFrame(Tail(prods), key)

\* frames["products"]["product_id"].tolist()
BatchIds(prods) == { prods[i].product_id : i \in 1..Len(prods) }

\* UPSERT_PRODUCTS_SQL for one record at time now: the row of the product_id
\* is updated in place (created_at kept), or a new row is inserted.
UpsertProduct(stored, rec, now) ==
    IF \E i \in 1..Len(stored) : stored[i].product_id = rec.product_id
    THEN [i \in 1..Len(stored) |->
            IF stored[i].product_id = rec.product_id
            THEN [stored[i] EXCEPT !.name = rec.name, !.ean = rec.ean,
                                   !.listing_name = rec.listing_name,
                                   !.updated_at = now]
            ELSE stored[i]]
    ELSE Append(stored, [product_id |-> rec.product_id, name |-> rec.name,
                       ean |-> rec.ean, listing_name |-> rec.listing_name,
                       created_at |-> now, updated_at |-> now])

\* execute_batch(cur, UPSERT_PRODUCTS_SQL, records)
RECURSIVE UpsertProducts(_, _, _)
UpsertProducts(stored, prods, now) ==
    IF prods = <<>> THEN stored
    ELSE UpsertProducts(UpsertProduct(stored, ProductRecord(prods[1]), now),
                        Tail(prods), now)

\* One INSERT into a child table tb = [rows, next_id]. product_images has the
\* key (product_id, url) and updates on conflict; the other tables take the
\* next value of their id sequence.
InsertDetail(t, tb, row) ==
    IF t = "product_images"
    THEN IF \E i \in 1..Len(tb.rows) :
               tb.rows[i].product_id = row.product_id /\ tb.rows[i].val.url = row.val.url
         THEN [tb EXCEPT !.rows =
                 [i \in 1..Len(tb.rows) |->
                    IF tb.rows[i].product_id = row.product_id
                       /\ tb.rows[i].val.url = row.val.url
                    THEN [tb.rows[i] EXCEPT !.val = row.val]
                    ELSE tb.rows[i]]]
         ELSE [tb EXCEPT !.rows = Append(tb.rows, [id |-> 0, product_id |-> row.product_id,
                                                   val |-> row.val])]
    ELSE [rows |-> Append(tb.rows, [id |-> tb.next_id, product_id |-> row.product_id,
                                    val |-> row.val]),
          next_id |-> tb.next_id + 1]

\* execute_batch(cur, insert_sql, frame.to_dict("records"))
RECURSIVE InsertDetails(_, _, _)
InsertDetails(t, tb, frame) ==
    IF frame = <<>> THEN tb
    ELSE InsertDetails(t, InsertDetail(t, tb, frame[1]), Tail(frame))

\* The DELETE left out.
ReplaceDetail_Append(t, tb, frame, product_ids) == InsertDetails(t, tb, frame)

\* _replace_detail
ReplaceDetail(t, tb, frame, product_ids) ==
    IF product_ids = {} THEN tb
    ELSE InsertDetails(t,
                       [tb EXCEPT !.rows =
                           SelectSeq(tb.rows, LAMBDA r : r.product_id \notin product_ids)],
                       frame)

EmptyDb ==
    [products |-> <<>>,
     child |-> [t \in ChildTables |-> [rows |-> <<>>, next_id |-> 1]]]

\* save_products(products, config) at time now, in one transaction
SaveProducts(db, prods, now) ==
    IF prods = <<>> THEN db
    ELSE [products |-> UpsertProducts(db.products, prods, now),
          child |-> [t \in ChildTables |->
                        ReplaceDetail(t, db.child[t], BuildFrame(prods, FrameKey(t)),
                                      BatchIds(prods))]]

DbInit ==
    /\ WalkerIdle
    /\ side = [fn |-> "save_products", db |-> EmptyDb, saves |-> 0, last |-> <<>>]

SaveProductsCall ==
    /\ side.fn = "save_products"
    /\ side.saves < MaxSaves
    /\ \E prods \in Batches :
          side' = [side EXCEPT !.db = SaveProducts(side.db, prods, side.saves + 1),
                               !.saves = side.saves + 1,
                               !.last = prods]
    /\ UNCHANGED walker_vars

DbNext == SaveProductsCall

DbSpec == DbInit /\ [][DbNext]_vars

\* ------------------------------- _wait_for_table_ready and the page
\* The listing page re-renders on its own while the walker polls it. side
\* holds the DOM (the number of elements the row selector matches, and for
\* each table spinner whether its class holds "hidden"), the walker's position
\* and len(rows) as the walker read it.
MaxDomRows == 2
MaxSpinners == 2
MaxChanges == 3

SpinnerStates == SeqsUpTo(BOOLEAN, MaxSpinners)

\* _table_spinner_hidden: no spinner, or every spinner's class holds "hidden"
TableSpinnerHidden(spinners) == \A i \in 1..Len(spinners) : spinners[i]

\* EC.presence_of_element_located(ROWS_SELECTOR)
RowPresent(dom_rows) == dom_rows >= 1

TableInit ==
    /\ WalkerIdle
    /\ \E n \in 0..MaxDomRows, sp \in SpinnerStates :
          side = [fn |-> "_wait_for_table_ready", wpc |-> "wait_rows",
                  dom_rows |-> n, spinners |-> sp, changes |-> 0, found |-> 0]

TableCall == side.fn = "_wait_for_table_ready"

\* The page: an asynchronous update removes or draws rows.
PageDrawsRows ==
    /\ TableCall
    /\ side.changes < MaxChanges
    /\ \E n \in 0..MaxDomRows :
          /\ n # side.dom_rows
          /\ side' = [side EXCEPT !.dom_rows = n, !.changes = side.changes + 1]
    /\ UNCHANGED walker_vars

\* The page: a spinner is shown or hidden.
PageTogglesSpinner ==
    /\ TableCall
    /\ side.changes < MaxChanges
    /\ \E i \in 1..Len(side.spinners) :
          side' = [side EXCEPT !.spinners[i] = ~side.spinners[i],
                               !.changes = side.changes + 1]
    /\ UNCHANGED walker_vars

\* wait.until(presence of a row): returns at a poll that finds a row; 25 s
\* without one raise TimeoutException.
WaitRowPresent ==
    /\ TableCall
    /\ side.wpc = "wait_rows"
    /\ side' = [side EXCEPT !.wpc = IF RowPresent(side.dom_rows)
                                    THEN "wait_spinner" ELSE "timeout"]
    /\ UNCHANGED walker_vars

\* wait.until(_table_spinner_hidden): returns at a poll that finds the
\* spinners hidden; 25 s without raise TimeoutException.
WaitSpinnerHidden ==
    /\ TableCall
    /\ side.wpc = "wait_spinner"
    /\ side' = [side EXCEPT !.wpc = IF TableSpinnerHidden(side.spinners)
                                    THEN "enumerate" ELSE "timeout"]
    /\ UNCHANGED walker_vars

\* rows = driver.find_elements(...); if not rows: break
FindRows ==
    /\ TableCall
    /\ side.wpc = "enumerate"
    /\ side' = [side EXCEPT !.found = side.dom_rows,
                            !.wpc = IF side.dom_rows = 0 THEN "ended" ELSE "reading"]
    /\ UNCHANGED walker_vars

\* The rows are read and the next page is asked for: the walker waits again.
NextTable ==
    /\ TableCall
    /\ side.wpc = "reading"
    /\ side' = [side EXCEPT !.wpc = "wait_rows"]
    /\ UNCHANGED walker_vars

TableNext ==
    \/ PageDrawsRows
    \/ PageTogglesSpinner
    \/ WaitRowPresent
    \/ WaitSpinnerHidden
    \/ FindRows
    \/ NextTable

TableSpec == TableInit /\ [][TableNext]_vars

\* ----------------------- extract_modal_data: the readiness gate
\* The overlay changes on its own while extract_modal_data polls it. side
\* holds the overlay (visible, the text of #modal-name, the .loadingModal
\* spinner: "none", "hidden" or "shown"), the position in extract_modal_data
\* and in the walker's try block, whether detail fields were read, the calls
\* of _close_modal and the row's record.
SpinnerKinds == {"none", "hidden", "shown"}
TitleTexts == {"", Text}

\* The spinner test left out.
ModalContentReady_TitleOnly(title, spinner) == title # ""

\* _modal_content_ready: bool(title) and spinner_hidden
ModalContentReady(title, spinner) == title # "" /\ spinner # "shown"

ModalCall == side.fn = "extract_modal_data"

ModalInit ==
    /\ WalkerIdle
    /\ \E v \in BOOLEAN, t \in TitleTexts, sp \in SpinnerKinds, light \in BOOLEAN :
          side = [fn |-> "extract_modal_data", mpc |-> "wait_visible",
                  visible |-> v, title |-> t, spinner |-> sp, changes |-> 0,
                  light |-> light, read |-> FALSE, closes |-> 0, exc |-> "",
                  record |-> EmptyDict]

\* The page shows or hides the overlay.
PageTogglesOverlay ==
    /\ ModalCall
    /\ side.changes < MaxChanges
    /\ side' = [side EXCEPT !.visible = ~side.visible, !.changes = side.changes + 1]
    /\ UNCHANGED walker_vars

\* The page fills or clears #modal-name.
PageSetsTitle ==
    /\ ModalCall
    /\ side.changes < MaxChanges
    /\ \E t \in TitleTexts \ {side.title} :
          side' = [side EXCEPT !.title = t, !.changes = side.changes + 1]
    /\ UNCHANGED walker_vars

\* The page shows, hides or removes the overlay's spinner.
PageSetsSpinner ==
    /\ ModalCall
    /\ side.changes < MaxChanges
    /\ \E sp \in SpinnerKinds \ {side.spinner} :
          side' = [side EXCEPT !.spinner = sp, !.changes = side.changes + 1]
    /\ UNCHANGED walker_vars

\* The except block of lines 27-29: _close_modal, then RuntimeError.
GateTimeout(honoured) ==
    [side EXCEPT !.mpc = "raised",
                 !.closes = side.closes + 1,
                 !.visible = IF honoured THEN FALSE ELSE side.visible,
                 !.exc = "Modal nao carregou completamente antes do timeout."]

\* wait.until(visibility of #viewProduct): returns at a poll that finds the
\* overlay visible; the timeout without one raises TimeoutException.
WaitOverlayVisible ==
    /\ ModalCall
    /\ side.mpc = "wait_visible"
    /\ IF side.visible
       THEN side' = [side EXCEPT !.mpc = "wait_content"]
       ELSE \E honoured \in BOOLEAN : side' = GateTimeout(honoured)
    /\ UNCHANGED walker_vars

\* wait.until(_modal_content_ready): returns at a poll that finds the content
\* ready; the timeout without one raises TimeoutException; a stale #modal-name
\* raises out of the wait and of extract_modal_data.
WaitContentReady ==
    /\ ModalCall
    /\ side.mpc = "wait_content"
    /\ \/ IF ModalContentReady(side.title, side.spinner)
          THEN side' = [side EXCEPT !.mpc = "reading"]
          ELSE \E honoured \in BOOLEAN : side' = GateTimeout(honoured)
       \/ side' = [side EXCEPT !.mpc = "raised",
                               !.exc = "StaleElementReferenceException"]
    /\ UNCHANGED walker_vars

\* Lines 31-110: the reads of the detail fields; full mode closes the overlay
\* on its return.
ReadDetailFields ==
    /\ ModalCall
    /\ side.mpc = "reading"
    /\ \E honoured \in BOOLEAN :
          side' = [side EXCEPT
                     !.mpc = "returned",
                     !.read = TRUE,
                     !.record = IF side.light THEN LightData(1)
                                ELSE FullData(LightData(1)),
                     !.closes = IF side.light THEN side.closes ELSE side.closes + 1,
                     !.visible = IF ~side.light /\ honoured THEN FALSE
                                 ELSE side.visible]
    /\ UNCHANGED walker_vars

\* The walker's try block around the call: the record of the row, from the
\* return or from the except block; the walker goes on to the next row.
WalkerTakesResult ==
    /\ ModalCall
    /\ side.mpc \in {"returned", "raised"}
    /\ side' = [side EXCEPT
                  !.mpc = "next_row",
                  !.record =
                     IF side.mpc = "returned"
                     THEN RowResult(ListingSummary(1, "K"), side.record, side.light)
                     ELSE ErrorResult(ListingSummary(1, "K"), side.record, side.exc)]
    /\ UNCHANGED walker_vars

ModalNext ==
    \/ PageTogglesOverlay
    \/ PageSetsTitle
    \/ PageSetsSpinner
    \/ WaitOverlayVisible
    \/ WaitContentReady
    \/ ReadDetailFields
    \/ WalkerTakesResult

ModalSpec == ModalInit /\ [][ModalNext]_vars

\* ------------------- extract_modal_data: the list-valued fields
\* Full mode reads categories, flags, top_keywords and title_suggestions, in
\* this order. side holds, for each field, its container in the overlay
\* ("missing", "empty", "items": list items or badges, "text": text without
\* items), the number of activations of its tab and the list read; whether
\* the tabs have an activation control; the field being read and the
\* position in its read.
ListFields == <<"categories", "flags", "top_keywords", "title_suggestions">>
ListFieldSet == { ListFields[i] : i \in 1..Len(ListFields) }
ContainerStates == {"missing", "empty", "items", "text"}

\* Lines 78-79 and 91-92: which fields are read through _collect_list_items
\* and so through _ensure_tab_content_loaded.
UsesDetector(f) == f \in {"top_keywords", "title_suggestions"}

\* _container_has_content
ContainerHasContent(c) == c \in {"items", "text"}

\* _collect_badge_values / _collect_labeled_badges: one entry per badge
CollectBadges(c) == IF c = "items" THEN <<Text>> ELSE <<>>

\* _collect_list_items after the container was returned: the texts of the
\* list items, else the lines of the container's text
CollectListItems(c) == IF ContainerHasContent(c) THEN <<Text>> ELSE <<>>

\* The TimeoutException of the poll left to propagate.
AfterTabTimeout_Raise == "raise"

\* except TimeoutException: pass, then the container is returned as it is
AfterTabTimeout == "collect"

TabCall == side.fn = "list_fields"

TabInit ==
    /\ WalkerIdle
    /\ \E dom \in [ListFieldSet -> ContainerStates], trigger \in BOOLEAN :
          side = [fn |-> "list_fields", dom |-> dom, trigger |-> trigger,
                  at |-> 1, tpc |-> "look",
                  activated |-> [f \in ListFieldSet |-> 0],
                  timed_out |-> [f \in ListFieldSet |-> FALSE],
                  result |-> [f \in ListFieldSet |-> <<>>],
                  exc |-> "", scrape_error |-> None]

Field == ListFields[side.at]

\* The next field, or the end of the reads.
NextField(sd) ==
    IF sd.at < Len(ListFields)
    THEN [sd EXCEPT !.at = sd.at + 1, !.tpc = "look"]
    ELSE [sd EXCEPT !.tpc = "done"]

\* The page fills the container of a tab that was activated.
PageFillsTab ==
    /\ TabCall
    /\ \E f \in ListFieldSet, c \in {"items", "text"} :
          /\ side.activated[f] >= 1
          /\ side.dom[f] = "empty"
          /\ side' = [side EXCEPT !.dom[f] = c]
    /\ UNCHANGED walker_vars

\* categories and flags: find_elements on the badge selector, at once.
ReadBadgeField ==
    /\ TabCall
    /\ side.tpc = "look"
    /\ ~UsesDetector(Field)
    /\ side' = NextField([side EXCEPT !.result[Field] = CollectBadges(side.dom[Field])])
    /\ UNCHANGED walker_vars

\* _ensure_tab_content_loaded up to the poll: no container gives None (and
\* the field []), a container with content is returned, otherwise the tab's
\* control, when there is one, is clicked by script.
EnsureTabContentLoaded ==
    /\ TabCall
    /\ side.tpc = "look"
    /\ UsesDetector(Field)
    /\ side' =
          IF side.dom[Field] = "missing" THEN NextField(side)
          ELSE IF ContainerHasContent(side.dom[Field])
          THEN [side EXCEPT !.tpc = "collect"]
          ELSE [side EXCEPT !.tpc = "poll",
                            !.activated[Field] =
                               IF side.trigger THEN @ + 1 ELSE @]
    /\ UNCHANGED walker_vars

\* wait.until(container has content), TAB_CONTENT_TIMEOUT: returns at a poll
\* that finds content; the timeout without one is passed over. A container
\* re-rendered under the poll raises StaleElementReferenceException, which
\* the wait does not ignore.
PollTabContent ==
    /\ TabCall
    /\ side.tpc = "poll"
    /\ \/ side' =
             IF ContainerHasContent(side.dom[Field])
             THEN [side EXCEPT !.tpc = "collect"]
             ELSE [side EXCEPT !.tpc = AfterTabTimeout, !.timed_out[Field] = TRUE,
                               !.exc = "TimeoutException"]
       \/ side' = [side EXCEPT !.tpc = "raise",
                               !.exc = "StaleElementReferenceException"]
    /\ UNCHANGED walker_vars

\* return _refind(...) and the rest of _collect_list_items
CollectField ==
    /\ TabCall
    /\ side.tpc = "collect"
    /\ side' = NextField([side EXCEPT !.result[Field] =
                                         CollectListItems(side.dom[Field])])
    /\ UNCHANGED walker_vars

\* An exception out of extract_modal_data: the walker's except block.
TabRaise ==
    /\ TabCall
    /\ side.tpc = "raise"
    /\ side' = [side EXCEPT !.tpc = "done", !.scrape_error = Str(side.exc),
                            !.result = [f \in ListFieldSet |-> <<>>]]
    /\ UNCHANGED walker_vars

TabNext ==
    \/ PageFillsTab
    \/ ReadBadgeField
    \/ EnsureTabContentLoaded
    \/ PollTabContent
    \/ CollectField
    \/ TabRaise

TabSpec == TabInit /\ [][TabNext]_vars

\* ------------------------------------------------ _close_modal
\* side holds the page (the overlay is visible; what the close control does
\* when clicked: "ok", "missing", "intercepted"; whether the body takes keys;
\* whether the page hides the overlay on a close request), the call site, the
\* position in _close_modal and what it did so far.
ButtonKinds == {"ok", "missing", "intercepted"}
CloseCallers == {"gate_timeout", "full_return"}

\* The TimeoutException of the invisibility wait left to propagate.
AfterCloseTimeout_Raise == "raised"

\* except TimeoutException: pass
AfterCloseTimeout == "returned"

CloseCall == side.fn = "_close_modal"

CloseInit ==
    /\ WalkerIdle
    /\ \E v \in BOOLEAN, b \in ButtonKinds, k \in BOOLEAN, h \in BOOLEAN,
          c \in CloseCallers :
          side = [fn |-> "_close_modal", caller |-> c, cpc |-> "click",
                  visible |-> v, button |-> b, body_takes_keys |-> k, honours |-> h,
                  clicked |-> FALSE, click_failed |-> FALSE,
                  escaped |-> FALSE, escape_failed |-> FALSE,
                  requested |-> FALSE, waited |-> FALSE, timed_out |-> FALSE]

\* The page hides the overlay after a close request it honours.
PageHidesOverlay ==
    /\ CloseCall
    /\ side.requested
    /\ side.honours
    /\ side.visible
    /\ side' = [side EXCEPT !.visible = FALSE]
    /\ UNCHANGED walker_vars

\* find_element("#viewProduct button.close").click(); any exception leads to
\* the fallback.
ClickCloseControl ==
    /\ CloseCall
    /\ side.cpc = "click"
    /\ side' = IF side.button = "ok"
               THEN [side EXCEPT !.cpc = "wait", !.clicked = TRUE, !.requested = TRUE]
               ELSE [side EXCEPT !.cpc = "escape", !.clicked = TRUE,
                                 !.click_failed = TRUE]
    /\ UNCHANGED walker_vars

\* find_element(body).send_keys(Keys.ESCAPE); any exception is passed over.
SendEscape ==
    /\ CloseCall
    /\ side.cpc = "escape"
    /\ side' = IF side.body_takes_keys
               THEN [side EXCEPT !.cpc = "wait", !.escaped = TRUE, !.requested = TRUE]
               ELSE [side EXCEPT !.cpc = "wait", !.escaped = TRUE,
                                 !.escape_failed = TRUE]
    /\ UNCHANGED walker_vars

\* WebDriverWait(driver, 10).until(invisibility of #viewProduct): returns at
\* a poll that finds the overlay gone; the timeout is passed over.
WaitOverlayInvisible ==
    /\ CloseCall
    /\ side.cpc = "wait"
    /\ side' = IF ~side.visible
               THEN [side EXCEPT !.cpc = "returned", !.waited = TRUE]
               ELSE [side EXCEPT !.cpc = AfterCloseTimeout, !.waited = TRUE,
                                 !.timed_out = TRUE]
    /\ UNCHANGED walker_vars

CloseNext ==
    \/ PageHidesOverlay
    \/ ClickCloseControl
    \/ SendEscape
    \/ WaitOverlayInvisible

CloseSpec == CloseInit /\ [][CloseNext]_vars

\* ------------------------- extract_modal_data: price_min_brl
\* side holds the class attribute of #price-min-alert (NoText for no
\* attribute), whether the element exists, the text of #price-min (NoText
\* for no element), the mode and the field.

\* sub in s
Contains(s, sub) ==
    \E i \in 1..(Len(s) - Len(sub) + 1) : SubSeq(s, i, i + Len(sub) - 1) = sub

HiddenWord == <<"h", "i", "d", "d", "e", "n">>

\* The class test left out.
IsHidden_Never(class) == FALSE

\* "hidden" in (get_attribute("class") or "")
IsHidden(class) == Contains(IF class.some THEN class.chars ELSE <<>>, HiddenWord)

\* _text_or_none on the text of the first match, NoText for no match
TextOrNone(text) ==
    IF ~text.some \/ Strip(text.chars) = <<>> THEN NoText
    ELSE SomeText(Strip(text.chars))

\* Lines 54-60
PriceMin(alert_exists, class, text) ==
    IF alert_exists /\ ~IsHidden(class) THEN ParseDecimal(TextOrNone(text))
    ELSE NoDecimal

AlertClasses ==
    { NoText, SomeText(<<>>), SomeText(<<"a", "l", "e", "r", "t">>), SomeText(<<"a", "l", "e", "r", "t", " ", "h", "i", "d", "d", "e", "n">>),
      SomeText(HiddenWord), SomeText(<<"h", "i", "d", "d", "e", "n", " ", "a", "l", "e", "r", "t">>) }

PriceMinTexts ==
    { NoText, SomeText(<<>>), SomeText(<<" ">>), SomeText(<<"R", "$", " ", "1", ",", "5", "0">>),
      SomeText(<<"R", "$", " ", "1", ".", "5", "0", "0", ",", "0", "0">>), SomeText(<<"1", "5">>),
      SomeText(<<"a", "b", "c">>), SomeText(<<" ", "R", "$", "~", "5", ",", "0", "5", " ">>) }

PriceMinInit ==
    /\ WalkerIdle
    /\ \E e \in BOOLEAN, c \in AlertClasses, t \in PriceMinTexts, light \in BOOLEAN :
          side = [fn |-> "price_min_brl", alert_exists |-> e, class |-> c,
                  text |-> t, light |-> light, done |-> FALSE,
                  price_min_brl |-> NoDecimal]

ReadPriceMin ==
    /\ side.fn = "price_min_brl"
    /\ ~side.done
    /\ side' = [side EXCEPT !.done = TRUE,
                            !.price_min_brl =
                               PriceMin(side.alert_exists, side.class, side.text)]
    /\ UNCHANGED walker_vars

PriceMinNext == ReadPriceMin

PriceMinSpec == PriceMinInit /\ [][PriceMinNext]_vars

\* ------------------------------------------- the available quantity
\* Longest stock tooltip and stock label tried.
AvailMaxLen == 2

AvailChars == {"0", "5", "u", " "}
AvailTooltips == {NoText} \cup { SomeText(c) : c \in SeqsUpTo(AvailChars, AvailMaxLen) }
AvailLabels == SeqsUpTo(AvailChars, AvailMaxLen)

\* a or b on two optional integers: 0 and None are false
OrInt(a, b) == IF a.some /\ a.value # 0 THEN a ELSE b

\* _extract_listing_summary, lines 128-131: listing_available_qty
ListingAvailableQty(badge, tooltip, label) ==
    IF badge
    THEN OrInt(ParseQuantityList(tooltip), ParseQuantityList(SomeText(Strip(label))))
    ELSE OrInt(ParseQuantityList(SomeText(<<>>)), ParseQuantityList(SomeText(<<>>)))

\* extract_modal_data, lines 41-52: available_qty
ModalAvailableQty(badge, tooltip, label) ==
    IF badge
    THEN OrInt(ParseQuantityModal(IF tooltip.some THEN tooltip ELSE SomeText(<<>>)),
               ParseQuantityModal(SomeText(Strip(label))))
    ELSE NoInt

\* The stock badge of a row or of the overlay: there or not, with its
\* data-original-title attribute and its text.
AvailInit ==
    /\ WalkerIdle
    /\ \E badge \in BOOLEAN, tooltip \in AvailTooltips, label \in AvailLabels :
          /\ (~badge) => (tooltip = NoText /\ label = <<>>)
          /\ side = [fn |-> "available_qty", badge |-> badge, tooltip |-> tooltip,
                     label |-> label, done |-> FALSE, list |-> NoInt, modal |-> NoInt]

ReadAvailableQty ==
    /\ side.fn = "available_qty"
    /\ ~side.done
    /\ side' = [side EXCEPT
                  !.done = TRUE,
                  !.list = ListingAvailableQty(side.badge, side.tooltip, side.label),
                  !.modal = ModalAvailableQty(side.badge, side.tooltip, side.label)]
    /\ UNCHANGED walker_vars

AvailNext == ReadAvailableQty

AvailSpec == AvailInit /\ [][AvailNext]_vars

\* ------------------------------------------------------- main.py
DEFAULT_TEST_PAGE_LIMIT == 5

\* Longest value of SCRAPER_PAGE_LIMIT tried, and most pages of the table.
EnvMaxLen == 2
MaxPages == 7

EnvChars == {"0", "1", "7", "-", " ", "x"}
EnvValues == {NoText} \cup { SomeText(c) : c \in SeqsUpTo(EnvChars, EnvMaxLen) }

\* The digits of an integer literal, sign removed: digits, with single
\* underscores between them.
IsIntBody(b) ==
    /\ b # <<>>
    /\ \A i \in 1..Len(b) : IsDigit(b[i]) \/ b[i] = "_"
    /\ b[1] # "_" /\ b[Len(b)] # "_"
    /\ \A i \in 1..(Len(b) - 1) : ~(b[i] = "_" /\ b[i + 1] = "_")

\* int(text): NoInt stands for ValueError
IntOf(chars) ==
    LET t == Strip(chars)
        signed == t # <<>> /\ t[1] \in {"-", "+"}
        body == IF signed THEN Tail(t) ELSE t
    IN  IF ~IsIntBody(body) THEN NoInt
        ELSE IF signed /\ t[1] = "-" THEN SomeInt(0 - ToInt(DigitsOnly(body)))
        ELSE SomeInt(ToInt(DigitsOnly(body)))

\* A limit below 0 passed on as it is.
DisableNonPositive_Keep(limit) == limit

\* if PAGE_LIMIT and PAGE_LIMIT <= 0: PAGE_LIMIT = None
DisableNonPositive(limit) ==
    IF limit.some /\ limit.value # 0 /\ limit.value <= 0 THEN NoInt ELSE limit

\* PAGE_LIMIT, from the value of SCRAPER_PAGE_LIMIT
PageLimit(env) ==
    LET parsed == IF env.some /\ env.chars # <<>> THEN IntOf(env.chars)
                  ELSE SomeInt(DEFAULT_TEST_PAGE_LIMIT)
    IN  DisableNonPositive(IF parsed.some THEN parsed
                           ELSE SomeInt(DEFAULT_TEST_PAGE_LIMIT))

\* The script is loaded with a value of the variable, on a table of some
\* pages, each with rows.
MainInit ==
    /\ WalkerIdle
    /\ \E env \in EnvValues, n \in 1..MaxPages :
          side = [fn |-> "main", env |-> env, pages |-> n, mpc |-> "load",
                  limit |-> NoInt, at |-> 1, visited |-> 0]

\* Lines 14-23, and the call of scrape_all_products with page_limit=PAGE_LIMIT
LoadPageLimit ==
    /\ side.fn = "main"
    /\ side.mpc = "load"
    /\ side' = [side EXCEPT !.limit = PageLimit(side.env), !.mpc = "walk"]
    /\ UNCHANGED walker_vars

\* One turn of the loop of scrape_all_products, by pages: the page is read,
\* then the limit is compared, then the next-page control is used.
VisitPage ==
    /\ side.fn = "main"
    /\ side.mpc = "walk"
    /\ LET arg == IF side.limit.some THEN side.limit.value ELSE 0
       IN  side' = [side EXCEPT
                      !.visited = side.visited + 1,
                      !.mpc = IF LimitReached(arg, side.at) \/ side.at = side.pages
                              THEN "done" ELSE "walk",
                      !.at = IF LimitReached(arg, side.at) \/ side.at = side.pages
                             THEN side.at ELSE side.at + 1]
    /\ UNCHANGED walker_vars

MainNext == LoadPageLimit \/ VisitPage

MainSpec == MainInit /\ [][MainNext]_vars

\* ------------------------------------------------------------ the claims
HasError(r) == "scrape_error" \in DOMAIN r /\ r["scrape_error"] # None

\* The keys of a record that are neither listing-summary keys nor bookkeeping.
DetailKeys(r) == (DOMAIN r) \ (SummaryFields \cup {"scrape_error", "_existing_sku"})

LightDetail == LightFields \ {"product_id"}
FullDetail == (LightFields \cup FullOnlyFields) \ {"product_id"}

ErrorShape == SummaryFields \cup {"scrape_error", "_existing_sku"}
LightShape == SummaryFields \cup LightFields \cup {"scrape_error", "_existing_sku"}
FullShape == SummaryFields \cup LightFields \cup FullOnlyFields \cup {"_existing_sku"}

Ids(recs) == [i \in 1..Len(recs) |-> recs[i]["product_id"]]

\* The product ids of pages 1..n in page order, row order within a page.
RECURSIVE PageIds(_, _)
PageIds(t, n) ==
    IF n = 0 THEN <<>>
    ELSE PageIds(t, n - 1) \o [i \in 1..t[n] |-> RowId(t, n, i)]

InRow == pc \in {"summary", "open_modal", "modal_wait", "read_light", "read_full",
                 "row_result"}

\* The step that ends a row whose overlay open or extraction raised.
C1_RowStep ==
    (pc = "row_result" /\ exc # "") =>
        /\ Len(page_products') = Len(page_products) + 1
        /\ SubSeq(page_products', 1, Len(page_products)) = page_products
        /\ HasError(page_products'[Len(page_products')])
        /\ DOMAIN page_products'[Len(page_products')] = ErrorShape
        /\ pc' = IF index < rows THEN "summary" ELSE "page_end"
        /\ products' = products

\* The records of the page being walked.
C1_PageState ==
    /\ InRow => Len(page_products) = index - 1
    /\ pc = "page_end" => Len(page_products) = table[dom_page]
    /\ (InRow \/ pc = "page_end") =>
          \A k \in 1..Len(page_products) :
             /\ page_products[k]["product_id"] = RowId(table, dom_page, k)
             /\ ~HasError(page_products[k]) =>
                   DetailKeys(page_products[k]) \in {LightDetail, FullDetail}

\* C1. Row isolation: a row whose overlay open or extraction raised still
\* gets its record, with an error and the listing-summary fields only; the
\* records gathered before it are untouched, the walker goes on with the next
\* row (or ends the page), and a finished page has one record per row, each
\* with the id of its row, the rows that did not fail complete.
C1_RowIsolation == [][C1_RowStep]_vars /\ []C1_PageState

\* A finished page of at least two rows where a row failed and the row after
\* it was extracted completely.
C1_Witness ==
    /\ pc = "page_end"
    /\ \E k \in 1..(Len(page_products) - 1) :
          /\ HasError(page_products[k])
          /\ ~HasError(page_products[k + 1])
          /\ DetailKeys(page_products[k + 1]) = FullDetail

\* C2. A trigger without data-id is fatal to its row only: the run is never
\* aborted by it.
C2_MissingIdIsRowFatal ==
    ~(pc = "raised" /\ exc = "Botao do modal nao possui data-id.")

\* C3. extract_modal_data has run _close_modal whenever it has returned or
\* raised.
C3_ExtractAlwaysCloses == extract_exit # "none" => closed_in_call

\* C4. Close before next open: when the walker is about to activate a row's
\* trigger, and the page has honoured every close request made of it, no
\* overlay is open.
C4_CloseBeforeNextOpen == (pc = "open_modal" /\ ~close_ignored) => ~overlay

\* C5. A run that ended, by returning or by raising, has delivered the
\* records gathered so far to its caller.
C5_PartialResultsDelivered ==
    (pc \in {"done", "raised"} /\ products # <<>>) =>
        (returned.ok /\ returned.value = products)

\* C6. Page limit: with page_limit = N >= 1 the next-page control is activated
\* fewer than N times and the page counter never passes N; a run that returns
\* from a listing of at least N pages returns exactly the rows of pages 1..N,
\* in page order and row order.
C6_PageLimitBoundary ==
    /\ page_limit >= 1 => (next_clicks < page_limit /\ page <= page_limit)
    /\ (pc = "done" /\ page_limit >= 1 /\ page_limit <= Len(table)) =>
          /\ returned.ok
          /\ Ids(returned.value) = PageIds(table, page_limit)
          /\ page = page_limit
          /\ next_clicks = page_limit - 1

\* A run that stopped at the limit of 2 pages with a further page left.
C6_Witness ==
    /\ pc = "done"
    /\ page_limit = 2
    /\ Len(table) > 2
    /\ Len(returned.value) = table[1] + table[2]

\* C7. No loss, no duplication: the records gathered are at every moment those
\* of the rows walked so far, one per row, in page order and row order, each
\* with the id of its row's trigger; a run that returns returns them all.
C7_NoLossNoDup ==
    /\ page >= 1 /\ page <= Len(table)
    /\ (pc # "raised") => page = dom_page
    /\ (InRow \/ pc \in {"await_table", "enumerate", "page_end"}) =>
          Ids(products) = PageIds(table, page - 1)
    /\ (InRow \/ pc = "page_end") =>
          Ids(page_products) = [k \in 1..Len(page_products) |-> RowId(table, page, k)]
    /\ pc \in {"next_page", "done"} => Ids(products) = PageIds(table, page)
    /\ pc = "done" => (returned.ok /\ returned.value = products)
    /\ \A i, j \in 1..Len(products) :
          products[i]["product_id"] = products[j]["product_id"] => i = j

\* A run over a listing of several pages that returned after its last page.
C7_Witness ==
    /\ pc = "done"
    /\ Len(table) >= 2
    /\ page = Len(table)
    /\ Len(returned.value) = MaxTotalRows

\* C8 as claimed: a light-mode record holds, of the detail fields, only the
\* price, stock and minimum-price fields.
C8_LightOnlyPriceStock ==
    \A k \in 1..Len(page_products) :
        (page_products[k]["_existing_sku"] /\ ~HasError(page_products[k])) =>
            DetailKeys(page_products[k]) \subseteq
                {"price_text", "price_brl", "stock_label", "stock_tooltip",
                 "available_qty", "price_min_brl"}

\* C8 as amended: a row is read in light mode exactly when its listing SKU is
\* in a non-empty known set; a light-mode record holds the canonical SKU and
\* name besides the price, stock and minimum-price fields and no other detail
\* field; a full-mode record holds every detail field.
C8_LightMode ==
    \A k \in 1..Len(page_products) :
        LET r == page_products[k] IN
        /\ r["_existing_sku"] = IsKnown(known_skus, r["listing_sku"])
        /\ ~HasError(r) =>
              DetailKeys(r) = IF r["_existing_sku"] THEN LightDetail ELSE FullDetail

\* A page with a light-mode record and a full-mode record.
C8_Witness ==
    \E i, j \in 1..Len(page_products) :
        /\ page_products[i]["_existing_sku"] /\ ~HasError(page_products[i])
        /\ page_products[i]["listing_sku"] \in known_skus
        /\ ~page_products[j]["_existing_sku"] /\ ~HasError(page_products[j])
        /\ page_products[j]["listing_sku"] = "U"

\* Each record of recs is an error record or a complete one.
C9_RecordsOf(recs) ==
    \A k \in 1..Len(recs) :
        IF HasError(recs[k])
        THEN DetailKeys(recs[k]) = {}
        ELSE DetailKeys(recs[k]) =
                IF recs[k]["_existing_sku"] THEN LightDetail ELSE FullDetail

\* The step that ends a row whose extraction was interrupted.
C9_Interrupted ==
    (pc = "row_result" /\ extract_exit \in {"raise_timeout", "raise_read"}) =>
        /\ HasError(page_products'[Len(page_products')])
        /\ DetailKeys(page_products'[Len(page_products')]) = {}

\* C9. Every output record is either free of error with the detail fields of
\* an extraction that ran to its end (light or full, as the row's mode), or
\* carries an error and no detail field; an interrupted extraction ends in a
\* record of the second kind, whatever it had read.
C9_ErrorOrComplete ==
    /\ [](C9_RecordsOf(products) /\ C9_RecordsOf(page_products))
    /\ [][C9_Interrupted]_vars

\* An extraction interrupted after it had read part of the fields, whose
\* record joined the run's output.
C9_Witness ==
    /\ pc = "row_result"
    /\ extract_exit = "raise_read"
    /\ data # EmptyDict
    /\ products # <<>>

\* C10 as claimed: all records have the same field names.
C10_StableShape ==
    \A i, j \in 1..Len(products) : DOMAIN products[i] = DOMAIN products[j]

\* C10 as amended: every record holds every listing-summary field and
\* _existing_sku; scrape_error is a key of exactly the light-mode and the
\* failed records (null in the first, the message in the second); the field
\* names of a record are those of its outcome: failed, light or full.
C10_ShapeByOutcome ==
    \A k \in 1..Len(products) :
        LET r == products[k] IN
        /\ SummaryFields \cup {"_existing_sku"} \subseteq DOMAIN r
        /\ "scrape_error" \in DOMAIN r <=> (HasError(r) \/ r["_existing_sku"])
        /\ DOMAIN r = IF HasError(r) THEN ErrorShape
                      ELSE IF r["_existing_sku"] THEN LightShape
                      ELSE FullShape

\* An output with a failed, a light-mode and a full-mode record.
C10_Witness ==
    \E i, j, k \in 1..Len(products) :
        /\ DOMAIN products[i] = ErrorShape
        /\ DOMAIN products[j] = LightShape
        /\ DOMAIN products[k] = FullShape

\* The steps of a table-ready timeout, and the end of all steps once raised.
C11_Step ==
    /\ pc # "raised"
    /\ (pc = "await_table" /\ pc' # "enumerate") =>
          /\ pc' = "raised"
          /\ exc' = "TimeoutException"
          /\ UNCHANGED <<products, page_products, on_page_calls, returned, page,
                         next_clicks>>
    /\ (pc = "next_page" /\ next_clicks' # next_clicks /\ pc' # "await_table") =>
          /\ pc' = "raised"
          /\ exc' = "TimeoutException"
          /\ UNCHANGED <<products, page_products, on_page_calls, returned, page>>

\* C11. A table-ready timeout, at the top of the loop or after a page advance,
\* leaves scrape_all_products as an exception: nothing is returned, and from
\* then on no row is read, no page processed and no callback invoked.
C11_TableTimeoutIsFatal ==
    /\ [][C11_Step]_vars
    /\ [](pc = "raised" => returned = NoValue)

\* A run aborted by the table wait that follows a page advance, one page done.
C11_Witness ==
    /\ pc = "raised"
    /\ exc = "TimeoutException"
    /\ next_clicks = 1
    /\ Len(products) >= 1

\* The records passed to the callback, in call order.
RECURSIVE CallRecords(_)
CallRecords(calls) ==
    IF calls = <<>> THEN <<>>
    ELSE CallRecords(SubSeq(calls, 1, Len(calls) - 1)) \o calls[Len(calls)].records

\* C12. Callback protocol: on_page has been invoked once for each page whose
\* rows are all processed, with that page's number (1, 2, 3, ... without a gap)
\* and one record per row of the page, before the walker advances or stops;
\* the records passed so far are those gathered so far, and those of a run
\* that returns are the list returned. Without a callback nothing is invoked.
C12_CallbackProtocol ==
    /\ ~on_page => on_page_calls = <<>>
    /\ on_page =>
          /\ \A k \in 1..Len(on_page_calls) :
                /\ on_page_calls[k].page = k
                /\ Ids(on_page_calls[k].records) =
                      [i \in 1..table[k] |-> RowId(table, k, i)]
          /\ CallRecords(on_page_calls) = products
          /\ pc \in {"next_page", "done"} => Len(on_page_calls) = page
          /\ (InRow \/ pc \in {"await_table", "enumerate", "page_end"}) =>
                Len(on_page_calls) = page - 1
          /\ pc = "done" => CallRecords(on_page_calls) = returned.value

\* A run with a callback that returned after more than one page.
C12_Witness ==
    /\ on_page
    /\ pc = "done"
    /\ Len(on_page_calls) >= 2
    /\ Len(returned.value) = MaxTotalRows

GalleryDone == side.fn = "_collect_gallery" /\ side.done

\* C13. Gallery invariant: no two entries of the gallery have the same URL;
\* a main image, when there is one, is the first entry, at position 0 with
\* is_main true; no other entry has position 0 or is_main true.
C13_GalleryInvariant ==
    GalleryDone =>
        LET g == side.gallery IN
        /\ \A i, j \in 1..Len(g) : g[i].url = g[j].url => i = j
        /\ ~Falsy(side.main_src) =>
              /\ Len(g) >= 1
              /\ g[1].url = side.main_src
              /\ g[1].is_main
              /\ g[1].position = 0
        /\ \A i \in 1..Len(g) :
              (g[i].is_main \/ g[i].position = 0) =>
                  (i = 1 /\ ~Falsy(side.main_src))

\* A gallery with a main image whose thumbnails repeat a URL twice.
C13_Witness ==
    /\ GalleryDone
    /\ side.main_src = "A"
    /\ Len(side.thumbnails) = 3
    /\ \A i \in 1..3 : side.thumbnails[i].src = "B"
    /\ Len(side.gallery) = 2

\* C14. Main image A and thumbnails [A, B] give exactly two entries: A as the
\* main image at position 0 and B, not main, at position 1.
C14_DuplicateTakesNoPosition ==
    (/\ GalleryDone
     /\ side.main_src = "A"
     /\ Len(side.thumbnails) = 2
     /\ side.thumbnails[1].src = "A"
     /\ side.thumbnails[2].src = "B") =>
        /\ Len(side.gallery) = 2
        /\ side.gallery[1].url = "A"
        /\ side.gallery[1].is_main
        /\ side.gallery[1].position = 0
        /\ side.gallery[2].url = "B"
        /\ ~side.gallery[2].is_main
        /\ side.gallery[2].position = 1

QtyDone == side.fn = "_parse_quantity" /\ side.done

\* The position of the first digit of s (Len(s) + 1 when it has none).
RECURSIVE FirstDigit(_, _)
FirstDigit(s, i) ==
    IF i > Len(s) THEN i ELSE IF IsDigit(s[i]) THEN i ELSE FirstDigit(s, i + 1)

\* The first integer-looking token of s: the digits from the first digit on,
\* continued through thousands groups (a '.' or a space and three digits)
\* when the leading digits are at most three.
FirstToken(s) ==
    LET p == FirstDigit(s, 1)
        n == RunAt(s, p)
        g == IF n <= 3 THEN GroupsAt(s, p + n) ELSE 0
    IN  SubSeq(s, p, p + n + 4 * g - 1)

\* The quantity the claim gives a text.
ClaimedQuantity(raw) ==
    IF ~raw.some \/ ~(\E i \in 1..Len(raw.chars) : IsDigit(raw.chars[i])) THEN NoInt
    ELSE LET v == ToInt(DigitsOnly(FirstToken(ReplaceChar(raw.chars, "~", " "))))
         IN  SomeInt(IF v > 1000000 THEN 1000000 ELSE v)

DecDone == side.fn = "_parse_decimal" /\ side.done

HasDigit(s) == \E i \in 1..Len(s) : IsDigit(s[i])

\* C16. Currency parser: a text 'R$ <integer part with '.' thousands
\* separators>,<two decimals>' gives exactly its fixed-point value (all its
\* digits, two of them decimal places), 'R$ 1.234,56' gives 1234.56; an absent
\* or empty text and a text that is not a number give absent.
C16_ParseDecimal ==
    DecDone =>
       /\ (side.value.some /\ side.value.chars \in CurrencyTexts) =>
             side.out = Finite(FALSE, ToInt(DigitsOnly(side.value.chars)), 0 - 2)
       /\ side.value.chars = <<"R", "$", " ", "1", ".", "2", "3", "4", ",", "5", "6">> =>
             side.out = Finite(FALSE, 123456, 0 - 2)
       /\ (~side.value.some \/ ~HasDigit(side.value.chars)) => side.out = NoDecimal

\* A price in the currency form gives exactly its value.
C16_CurrencyFormExact ==
    (DecDone /\ side.value.some /\ side.value.chars \in CurrencyTexts) =>
        side.out = Finite(FALSE, ToInt(DigitsOnly(side.value.chars)), 0 - 2)

C16_NaNParsed ==
    /\ DecDone
    /\ side.value.chars = <<"R", "$", " ", "N", "a", "N">>
    /\ side.out.kind = "nan"

\* A step that saves a batch with at least one product.
SaveStep == side.fn = "save_products" /\ side'.saves = side.saves + 1 /\ side'.last # <<>>

\* The number of rows of a table that satisfy a test.
CountRows(stored, Test(_)) == Cardinality({ i \in 1..Len(stored) : Test(stored[i]) })

\* Two tables hold the same rows, the named columns aside: every row is as
\* often in one as in the other.
SameRows(a, b, Strip_(_)) ==
    /\ \A i \in 1..Len(a) :
          CountRows(a, LAMBDA r : Strip_(r) = Strip_(a[i]))
             = CountRows(b, LAMBDA r : Strip_(r) = Strip_(a[i]))
    /\ \A i \in 1..Len(b) :
          CountRows(a, LAMBDA r : Strip_(r) = Strip_(b[i]))
             = CountRows(b, LAMBDA r : Strip_(r) = Strip_(b[i]))

NoTimestamps(r) ==
    [product_id |-> r.product_id, name |-> r.name, ean |-> r.ean,
     listing_name |-> r.listing_name]
NoId(r) == [product_id |-> r.product_id, val |-> r.val]
WithId(r) == r

\* The last product of a batch with a product_id.
LastOf(prods, pid) ==
    prods[CHOOSE i \in 1..Len(prods) :
                /\ prods[i].product_id = pid
                /\ \A j \in (i + 1)..Len(prods) : prods[j].product_id # pid]

\* The child rows of table t the batch holds for its products: every entry of
\* every product; for product_images one row per (product_id, url), with the
\* values of the last entry of that url.
BatchRows(t, prods) ==
    LET frame == BuildFrame(prods, FrameKey(t))
    IN  IF t = "product_images"
        THEN SelectSeq([i \in 1..Len(frame) |->
                          IF \E j \in (i + 1)..Len(frame) :
                                frame[j].product_id = frame[i].product_id
                                /\ frame[j].val.url = frame[i].val.url
                          THEN [product_id |-> 0, val |-> frame[i].val]
                          ELSE frame[i]],
                       LAMBDA r : r.product_id # 0)
        ELSE frame

\* The rows of a table for the products of a set.
RowsOf(stored, pids) == SelectSeq(stored, LAMBDA r : r.product_id \in pids)

\* A step that saves the batch that was saved just before.
Resave == SaveStep /\ side.saves >= 1 /\ side'.last = side.last

\* C17 as claimed: saving the batch that was saved just before leaves the same
\* stored rows, timestamps aside (the generated id of a child row is a column
\* of the row).
C17_SameRowsTimestampsAside ==
    [][Resave =>
          /\ SameRows(side.db.products, side'.db.products, NoTimestamps)
          /\ \A t \in ChildTables :
                SameRows(side.db.child[t].rows, side'.db.child[t].rows, WithId)]_vars

C17_Overwrite ==
    LET batch == side'.last
        ids == BatchIds(batch)
        rest == ProductIds \ ids
    IN  /\ \A pid \in ids :
              /\ CountRows(side'.db.products, LAMBDA r : r.product_id = pid) = 1
              /\ \A i \in 1..Len(side'.db.products) :
                    side'.db.products[i].product_id = pid =>
                       NoTimestamps(side'.db.products[i])
                          = ProductRecord(LastOf(batch, pid))
        /\ SameRows(RowsOf(side.db.products, rest), RowsOf(side'.db.products, rest),
                    WithId)
        /\ \A t \in ChildTables :
              /\ SameRows(RowsOf(side'.db.child[t].rows, ids), BatchRows(t, batch), NoId)
              /\ SameRows(RowsOf(side.db.child[t].rows, rest),
                          RowsOf(side'.db.child[t].rows, rest), WithId)

C17_Idempotent ==
    /\ SameRows(side.db.products, side'.db.products, NoTimestamps)
    /\ \A t \in ChildTables :
          SameRows(side.db.child[t].rows, side'.db.child[t].rows, NoId)

\* C17 as amended. Persistence overwrites instead of duplicating: after save_products
\* stores a batch, each product_id of the batch has one products row, holding
\* the batch's values, and in each of the six child tables the rows of those
\* products are the batch's rows, not added to the rows stored before; rows of
\* other products are untouched; saving the same batch again leaves the same
\* stored rows, timestamps and the generated ids of child rows aside.
C17_OverwriteNotDuplicate ==
    [][(SaveStep => C17_Overwrite) /\ (Resave => C17_Idempotent)]_vars

\* A batch with a product that has stored rows was saved again over itself.
C17_Witness ==
    /\ side.fn = "save_products"
    /\ side.saves = 2
    /\ side.last = <<ProductB(1), ProductA(2)>>
    /\ Len(side.db.products) = 2
    /\ Len(side.db.child["product_categories"].rows) = 3
    /\ \E i \in 1..3 : side.db.child["product_categories"].rows[i].id > 3

\* Both runs have returned.
BothReturned ==
    side.fn = "scrape_all_products" /\ side.run = 2 /\ pc = "done" /\ returned.ok

\* A record with the text of its error set aside.
ErrorTextAside(r) == IF HasError(r) THEN SetItem(r, "scrape_error", Text) ELSE r

C19_StaleIsRowFatal ==
    [][(pc = "summary" /\ pc' # "open_modal"
          /\ exc' = "StaleElementReferenceException") => pc' = "row_result"]_vars

\* C20. At the moment the walker enumerates the rows after
\* _wait_for_table_ready returned, the row selector matches at least one
\* element and every table spinner is hidden; the walker does not read rows
\* of a table that is loading and does not end because it read no row.
C20_ReadyWhenEnumerated ==
    [][(TableCall /\ side.wpc = "enumerate" /\ side'.wpc # "enumerate") =>
          /\ RowPresent(side.dom_rows)
          /\ TableSpinnerHidden(side.spinners)
          /\ side'.wpc # "ended"]_vars

GateTimedOut ==
    side.mpc = "raised"
       /\ side.exc = "Modal nao carregou completamente antes do timeout."

\* C21. Modal readiness gate: the first wait returns on a visible overlay, the
\* second on a non-empty name and no shown spinner, and detail fields are
\* read only after both; a wait that times out is followed by _close_modal
\* and a raise with no field read, and the walker makes of it an error record
\* of that row (the summary and scrape_error) and goes on to the next row.
C21_ReadinessGate ==
    [][ModalCall =>
          /\ (side.mpc = "wait_visible" /\ side'.mpc = "wait_content") => side.visible
          /\ (side.mpc = "wait_content" /\ side'.mpc = "reading") =>
                (side.title # "" /\ side.spinner # "shown")
          /\ (~side.read /\ side'.read) => side.mpc = "reading"
          /\ (side.mpc # "raised" /\ GateTimedOut') =>
                /\ side.mpc \in {"wait_visible", "wait_content"}
                /\ side'.closes = side.closes + 1
                /\ ~side'.read
          /\ (GateTimedOut /\ side'.mpc # "raised") =>
                /\ side'.mpc = "next_row"
                /\ HasError(side'.record)
                /\ DOMAIN side'.record = SummaryFields \cup {"scrape_error"}]_vars

\* The content wait timed out on a shown spinner under a filled name; the
\* overlay was closed and the row has an error record.
C21_Witness ==
    /\ ModalCall
    /\ side.mpc = "next_row"
    /\ side.exc = "Modal nao carregou completamente antes do timeout."
    /\ side.title # ""
    /\ side.spinner = "shown"
    /\ side.closes = 1
    /\ ~side.read
    /\ HasError(side.record)

\* The step that leaves the page advance.
C22_Step ==
    (pc = "next_page" /\ pc' # "next_page") =>
       IF pc' = "raised" /\ exc' = "NoSuchElementException"
       THEN next_clicks' = next_clicks /\ dom_page' = dom_page
       ELSE IF NextDisabled(table, dom_page)
       THEN /\ pc' = "done"
            /\ returned' = [ok |-> TRUE, value |-> products]
            /\ next_clicks' = next_clicks
            /\ dom_page' = dom_page
       ELSE /\ next_clicks' = next_clicks + 1
            /\ dom_page' = dom_page + 1
            /\ \/ pc' = "await_table" /\ page' = page + 1
               \/ pc' = "raised" /\ exc' = "TimeoutException" /\ page' = page

\* C22. Page advance: with the next-page control disabled the run ends in
\* Done returning the accumulated records and the control is not activated
\* (it is never activated on the last page); otherwise it is activated
\* exactly once and, unless the wait that follows times out and aborts the
\* run, the page counter grows by one and the walker waits for the table;
\* rows are enumerated only out of that wait.
C22_PageAdvance ==
    /\ [][C22_Step]_vars
    /\ [][(pc # "enumerate" /\ pc' = "enumerate") => pc = "await_table"]_vars
    /\ [](dom_page <= Len(table) /\ next_clicks = dom_page - 1)

\* The control was activated twice and the walker is on the third page, whose
\* control is disabled.
C22_Witness ==
    /\ side = Idle
    /\ Len(table) = 3
    /\ pc = "done"
    /\ returned.ok
    /\ next_clicks = 2
    /\ page = 3
    /\ page_limit = 0
    /\ Len(returned.value) = 3

\* C23. Each of the four list-valued fields is read through the readiness
\* detector: a field whose container is in the overlay but not populated is
\* not read as empty unless its tab was activated (the tabs having an
\* activation control).
C23_ListFieldsUseDetector ==
    (TabCall /\ side.trigger) =>
       \A i \in 1..Len(ListFields) :
          LET f == ListFields[i]
          IN  (side.at > i \/ side.tpc = "done") =>
                 ((side.dom[f] = "empty" /\ side.result[f] = <<>>) =>
                     side.activated[f] >= 1)

\* The step of _ensure_tab_content_loaded and _collect_list_items.
C24_Step ==
    TabCall =>
       /\ \A f \in ListFieldSet :
             /\ side'.activated[f] # side.activated[f] =>
                   /\ f = Field
                   /\ side.tpc = "look"
                   /\ side.dom[f] = "empty"
                   /\ side.trigger
                   /\ side.activated[f] = 0
                   /\ side'.activated[f] = 1
             /\ (~side.timed_out[f] /\ side'.timed_out[f]) =>
                   /\ f = Field
                   /\ side.tpc = "poll"
                   /\ side'.tpc = "collect"
       /\ (side.tpc = "collect" /\ side'.tpc # "collect") =>
             /\ side'.result[Field] =
                   (IF side.dom[Field] = "empty" THEN <<>> ELSE <<Text>>)
             /\ side'.tpc \in {"look", "done"}

\* C24. Tab-content readiness degrades gracefully: the tab of a container
\* without list item and text is activated at most once, the content is
\* polled, and a timeout of the poll is followed by the read of what the
\* container holds; a field whose container stayed empty is the empty list,
\* and when no read raised the record's error field is null.
C24_TabTimeoutDegrades ==
    /\ [][C24_Step]_vars
    /\ [](TabCall =>
            /\ \A f \in ListFieldSet : side.activated[f] <= 1
            /\ (side.tpc = "done" /\ side.exc # "StaleElementReferenceException") =>
                  /\ side.scrape_error = None
                  /\ \A f \in ListFieldSet :
                        side.dom[f] = "empty" => side.result[f] = <<>>)

\* The poll for the keywords timed out after one activation and the field is
\* empty; the title suggestions arrived after theirs; no error.
C24_Witness ==
    /\ TabCall
    /\ side.tpc = "done"
    /\ side.timed_out["top_keywords"]
    /\ side.activated["top_keywords"] = 1
    /\ side.result["top_keywords"] = <<>>
    /\ side.activated["title_suggestions"] = 1
    /\ side.result["title_suggestions"] = <<Text>>
    /\ side.scrape_error = None

\* C25. A failed close never blocks the run: _close_modal first clicks the
\* close control, sends Escape to the body only if that failed, goes on when
\* the fallback fails too, then waits for the overlay to be invisible and
\* passes over a timeout; it returns and never raises.
C25_CloseNeverRaises ==
    /\ [](CloseCall =>
            /\ side.cpc # "raised"
            /\ side.cpc # "click" => side.clicked
            /\ side.escaped <=> (side.click_failed /\ side.cpc # "escape")
            /\ side.escape_failed => side.escaped
            /\ side.cpc = "returned" <=> side.waited
            /\ side.timed_out => side.waited)
    /\ [][CloseCall =>
            /\ (side.cpc = "click" /\ side'.cpc # "click") =>
                  (side'.cpc = "escape" <=> side.button # "ok")
            /\ (side.cpc = "escape" /\ side'.cpc # "escape") => side'.cpc = "wait"
            /\ (side.cpc = "wait" /\ side'.cpc # "wait") =>
                  /\ side'.cpc = "returned"
                  /\ side'.timed_out <=> side.visible]_vars

\* The click and the fallback both failed, the overlay stayed visible, the
\* wait timed out and _close_modal returned.
C25_Witness ==
    /\ CloseCall
    /\ side.cpc = "returned"
    /\ side.click_failed
    /\ side.escape_failed
    /\ side.timed_out
    /\ side.visible

PriceMinDone == side.fn = "price_min_brl" /\ side.done

\* The indicator is marked hidden: "hidden" is one of its classes.
MarkedHidden(class) ==
    class \in {SomeText(HiddenWord), SomeText(<<"a", "l", "e", "r", "t", " ", "h", "i", "d", "d", "e", "n">>), SomeText(<<"h", "i", "d", "d", "e", "n", " ", "a", "l", "e", "r", "t">>)}

\* C26. In light and in full mode the minimum-price field is populated only
\* when the 'below minimum' indicator exists and is not marked hidden; with
\* the indicator missing or hidden the field is absent whatever the text of
\* the minimum-price element.
C26_PriceMinConditional ==
    PriceMinDone =>
       /\ side.price_min_brl # NoDecimal =>
             (side.alert_exists /\ ~MarkedHidden(side.class))
       /\ (~side.alert_exists \/ MarkedHidden(side.class)) =>
             side.price_min_brl = NoDecimal

\* A hidden indicator over a minimum-price text that parses, in light mode:
\* the field is absent; (the same text under a shown indicator is checked by
\* the formula).
C26_Witness ==
    /\ PriceMinDone
    /\ side.light
    /\ side.alert_exists
    /\ side.class = SomeText(<<"a", "l", "e", "r", "t", " ", "h", "i", "d", "d", "e", "n">>)
    /\ side.text = SomeText(<<"R", "$", " ", "1", ",", "5", "0">>)
    /\ side.price_min_brl = NoDecimal

\* The steps a row has left, by the position in its reading.
RowRank ==
    CASE pc = "summary" -> 5
      [] pc = "open_modal" -> 4
      [] pc = "modal_wait" -> 3
      [] pc = "read_light" -> 2
      [] pc = "read_full" -> 1
      [] OTHER -> 0

\* More than the steps one page can take.
PageSpan == 6 * MaxTotalRows + 10

\* A bound on the steps the run has left: the pages after the one shown, the
\* rows after the one read, the position in the row.
Rank ==
    IF pc \in {"done", "raised"} THEN 0
    ELSE (Len(table) - dom_page) * PageSpan
         + (CASE pc = "await_table" -> PageSpan - 1
              [] pc = "enumerate" -> PageSpan - 2
              [] pc = "page_end" -> 2
              [] pc = "next_page" -> 1
              [] OTHER -> 3 + 6 * (rows - index) + RowRank)

\* C27. Termination: on a table of finitely many pages whose last page
\* disables the next-page control, whatever the outcome of each wait, every
\* step of scrape_all_products brings the end of the run nearer (no wait and
\* no loop can go on for ever) and the run ends by returning or raising.
C27_Terminates ==
    /\ [][Rank' < Rank]_vars
    /\ [](Rank >= 0)
    /\ <>(pc \in {"done", "raised"})

\* A run over three pages that returned after the last one.
C27_Witness ==
    /\ side = Idle
    /\ pc = "done"
    /\ Len(table) = 3
    /\ dom_page = 3
    /\ page_limit = 0
    /\ Rank = 0
    /\ Len(returned.value) = 3
    /\ \E i \in 1..3 : HasError(returned.value[i])

\* The five child tables filled from the detail view only.
DetailTables == ChildTables \ {"product_listing_badges"}

\* A collected record that carries no detail data.
CarriesNoDetail(p) ==
    /\ "ean" \notin DOMAIN p
    /\ \A t \in DetailTables : FrameKey(t) \notin DOMAIN p

\* What is stored of the detail of a product: its detail column and the
\* values of its rows in the detail tables.
StoredDetail(db, pid) ==
    [ean |-> { db.products[i].ean :
                  i \in { j \in 1..Len(db.products) : db.products[j].product_id = pid } },
     child |-> [t \in DetailTables |->
                   [i \in 1..Len(RowsOf(db.child[t].rows, {pid})) |->
                       RowsOf(db.child[t].rows, {pid})[i].val]]]

\* A product has a row stored.
IsStored(db, pid) == \E i \in 1..Len(db.products) : db.products[i].product_id = pid

\* C28. Saving a record that carries no detail data (a light-mode record or a
\* row-error record) leaves what was stored of the product's detail as it
\* was: its rows in product_categories, product_flags, product_images,
\* product_keywords and product_titles and its detail columns.
C28_LightSaveKeepsDetail ==
    [][SaveStep =>
          \A pid \in BatchIds(side'.last) :
             (/\ IsStored(side.db, pid)
              /\ \A i \in 1..Len(side'.last) :
                    side'.last[i].product_id = pid => CarriesNoDetail(side'.last[i]))
             => StoredDetail(side'.db, pid) = StoredDetail(side.db, pid)]_vars

AvailDone == side.fn = "available_qty" /\ side.done /\ side.badge

\* C29. The available quantity of the listing summary and of the overlay is
\* the quantity parsed from the stock tooltip whenever the tooltip holds a
\* digit, and the quantity parsed from the stock label only when it holds
\* none; a tooltip stating 0 gives 0.
C29_TooltipFirst ==
    AvailDone =>
       LET fromTooltip == ParseQuantityList(side.tooltip)
           fromLabel == ParseQuantityList(SomeText(Strip(side.label)))
           claimed == IF side.tooltip.some /\ HasDigit(side.tooltip.chars)
                      THEN fromTooltip ELSE fromLabel
       IN  /\ side.list = claimed
           /\ side.modal = claimed

MainDone == side.fn = "main" /\ side.mpc = "done"

\* The smaller of two numbers.
Least(a, b) == IF a < b THEN a ELSE b

\* The limit C30 states for a value of the variable; 0 stands for no limit.
ClaimedLimit(env) ==
    IF ~env.some \/ env.chars = <<>> \/ ~IntOf(env.chars).some THEN 5
    ELSE IF IntOf(env.chars).value > 0 THEN IntOf(env.chars).value
    ELSE 0

\* C30. The effective page limit of the script is 5 when SCRAPER_PAGE_LIMIT is
\* unset, empty or not an integer, the configured value when it is a positive
\* integer, and none (all pages are walked) when it is an integer <= 0; a run
\* with no configuration visits at most 5 pages.
C30_EffectivePageLimit ==
    /\ MainDone =>
          /\ side.visited = IF ClaimedLimit(side.env) = 0 THEN side.pages
                            ELSE Least(side.pages, ClaimedLimit(side.env))
          /\ ~side.env.some => side.visited <= 5
    /\ side.fn = "main" =>
          /\ IntOf(<<"x">>) = NoInt /\ IntOf(<<"1", "x">>) = NoInt
          /\ IntOf(<<" ">>) = NoInt /\ IntOf(<<"-">>) = NoInt
          /\ IntOf(<<" ", "7">>) = SomeInt(7) /\ IntOf(<<"-", "1">>) = SomeInt(0 - 1)

\* No configuration and a table of seven pages: five were visited.
C30_Witness ==
    /\ MainDone
    /\ side.env = NoText
    /\ side.pages = 7
    /\ side.visited = 5

====
